---- MODULE Spec2Model ----
(***************************************************************************)
(* Robust-Serial: a layered serial protocol stack.                         *)
(*   Part 1  framing primitives (CRC-16, COBS)                             *)
(*   Part 2  Link Layer (byte rings, framing, resynchronisation)           *)
(*   Part 3  Transport Layer and Stack Coordinator (two stacks on a link)  *)
(* A transport packet is the byte sequence handed to LinkLayer::send:      *)
(* <<TYPE, CONN_ID, SEQ, LENGTH>> \o payload.                              *)
(***************************************************************************)
EXTENDS Integers, Sequences, FiniteSets, TLC

VARIABLES
    transport,      \* [Stacks -> TransportLayer members]
    stack_state,    \* [Stacks -> RobustStack::state_]
    chan,           \* chan[p]: transport packets queued by the peer's Link Layer, not yet received by p
    events,         \* events[p][e]: how often p's user event callback was called with e
    data_rx,        \* data_rx[p]: payloads handed to p's data callback, in order
    data_tx,        \* data_tx[p]: payloads p's send() accepted, in order
    unacked,        \* unacked[p]: p's last DATA has not been answered by a matching DATA_ACK
    datagram_rx,    \* datagram_rx[p]: payloads handed to p's datagram callback
    now,            \* milliseconds elapsed on the time source
    calls,          \* number of connection-control calls the users made
    injected,       \* number of packets an arbitrary peer has sent
    step,           \* the last such packet, and the receiving Transport Layer before it
    link,           \* [Stacks -> LinkLayer members]
    link_log,       \* what the Link Layers' callers and observers have seen
    cobs,           \* a byte sequence on its way through COBS::encode and COBS::decode
    timing,         \* the time source's start, and when the stack under test did what
    api             \* the last call of a stack's entry point, and the ids its listener gave out

transport_vars == <<transport, stack_state, chan, events, data_rx, data_tx, unacked,
                    datagram_rx, now, calls, injected, step>>
link_vars == <<link, link_log>>
vars == <<transport_vars, link_vars, cobs, timing, api>>

(***************************************************************************)
(* Bounds of the model                                                     *)
(***************************************************************************)
MaxTime == 2          \* the clock advances at most this far past its start
MaxSends == 2         \* send() calls accepted per stack
MaxPayloadLen == 1    \* length of a payload given to send()
MaxCalls == 3         \* connect/listen/disconnect calls in a run
MaxQueue == 2         \* frames in flight per direction (the embedder pumps the egress ring before it fills)
MaxInject == 4        \* packets an arbitrary peer sends in a run
KeepaliveMs == 1      \* set_timeout(keepalive_ms, ...)
TimeoutMs == 1        \* set_timeout(..., timeout_ms)
ClockSkew == 254      \* the second stack's clock runs this far ahead of the first's
MaxLinkSends == 3     \* payloads LinkLayer::send accepts in a run
MaxByteSteps == 7     \* transfers of a single byte in a run
PartChunk == 200      \* a number of bytes the Physical Layer may take in one go

Stacks == {1, 2}
Peer(p) == 3 - p

(***************************************************************************)
(* Part 3.  Transport Layer                                                *)
(***************************************************************************)
TRANSPORT_PACKET_TYPE_SYN == 1
TRANSPORT_PACKET_TYPE_SYN_ACK == 2
TRANSPORT_PACKET_TYPE_ACK == 3
TRANSPORT_PACKET_TYPE_FIN == 4
TRANSPORT_PACKET_TYPE_FIN_ACK == 5
TRANSPORT_PACKET_TYPE_DATA == 6
TRANSPORT_PACKET_TYPE_DATA_ACK == 7
TRANSPORT_PACKET_TYPE_DATA_NACK == 8
TRANSPORT_PACKET_TYPE_KEEPALIVE == 9
TRANSPORT_PACKET_TYPE_KEEPALIVE_ACK == 10
TRANSPORT_PACKET_TYPE_DATAGRAM == 11
TRANSPORT_PACKET_TYPE_MAX == 12
TRANSPORT_CONNECTION_ID_INVALID == 0
TRANSPORT_CONNECTION_ID_START == 1
TRANSPORT_HEADER_SIZE == 4
TRANSPORT_MAX_PAYLOAD_SIZE == 246
TRANSPORT_MAX_RETRIES == 3
WORD == 65536

TransportStates ==
    {"DISCONNECTED", "LISTENING", "CONNECTING", "CONNECTED", "DISCONNECTING", "ERROR"}
RobustStackStates == {"INIT", "READY", "CONNECTING", "CONNECTED", "ERROR"}
RobustStackEvents ==
    {"READY", "CONNECTED", "DISCONNECTED", "ERROR", "TIMEOUT",
     "DATA_RECEIVED", "DATA_SENT", "DATAGRAM_RECEIVED"}

\* A uint32_t is the pair <<high 16 bits, low 16 bits>>
U32(n) == <<(n \div WORD) % WORD, n % WORD>>
U32Add(a, n) ==
    LET lo == a[2] + n
    IN  <<(a[1] + (lo \div WORD)) % WORD, lo % WORD>>
\* uint32_t subtraction a - b, modulo 2^32
U32Sub(a, b) ==
    LET lo == a[2] - b[2]
        borrow == IF lo < 0 THEN 1 ELSE 0
    IN  <<(a[1] - b[1] - borrow) % WORD, lo % WORD>>
\* a > n for a uint32_t a and a number n below 2^31
U32Greater(a, n) == a[1] >= 32768 \/ a[1] * WORD + a[2] > n
\* current_time - earlier > limit, in uint32_t arithmetic
ElapsedOver(current_time, earlier, limit) == U32Greater(U32Sub(current_time, earlier), limit)

\* The header fields on_receive reads through TransportPacketHeader
HeaderType(data) == data[1]
HeaderConnectionId(data) == data[2]
HeaderSequence(data) == data[3]

Packet(type, connection_id, sequence_number, payload) ==
    <<type, connection_id, sequence_number, Len(payload)>> \o payload

(***************************************************************************)
(* A handler is an operator on the world W of one stack during one entry   *)
(* point: t the TransportLayer members, s the coordinator state, out the   *)
(* packets the Link Layer accepted, ev / rx / dg the user callbacks' calls,*)
(* now the time source, ret the value returned.                            *)
(***************************************************************************)
\* TransportLayer::reset; connection_id_ and last_tx_buffer_ are not touched
TransportLayer_reset(t) ==
    [t EXCEPT !.state_ = "DISCONNECTED",
              !.connect_retries_ = 0,
              !.last_keepalive_ack_time_ = U32(0),
              !.sequence_number_ = 0,
              !.peer_sequence_number_ = 0,
              !.awaiting_ack_ = FALSE,
              !.last_tx_time_ = U32(0),
              !.waiting_response_ = FALSE]

\* TransportLayer::TransportLayer() followed by initialize()
TransportInit ==
    [state_ |-> "DISCONNECTED",
     connect_retries_ |-> 0,
     last_keepalive_ack_time_ |-> U32(0),
     sequence_number_ |-> 0,
     peer_sequence_number_ |-> 0,
     awaiting_ack_ |-> FALSE,
     last_tx_time_ |-> U32(0),
     waiting_response_ |-> FALSE,
     connection_id_ |-> TRANSPORT_CONNECTION_ID_INVALID,
     last_tx_buffer_ |-> <<>>]

\* LinkLayer::send as the Transport Layer sees it: the frame is queued
down_layer_send(W, data) == [W EXCEPT !.out = Append(@, data)]

\* RobustStack::report_event with the user's event callback set
report_event(W, event) == [W EXCEPT !.ev[event] = @ + 1]

on_transport_layer_event(W, event_code) ==
    CASE event_code = "CONNECTED" ->
            report_event([W EXCEPT !.s = "CONNECTED"], "CONNECTED")
      [] event_code = "DISCONNECTED" ->
            report_event([W EXCEPT !.s = "READY"], "DISCONNECTED")
      [] event_code = "ERROR" ->
            report_event([W EXCEPT !.s = "ERROR"], "ERROR")
      [] event_code = "TIMEOUT" ->
            report_event([W EXCEPT !.s = "ERROR"], "TIMEOUT")
      [] OTHER -> W

\* Layer::report_event of the Transport Layer: manager_->on_layer_event
transport_report_event(W, event_code) == on_transport_layer_event(W, event_code)

RobustStack_on_receive(W, payload) ==
    IF Len(payload) = 0
    THEN W
    ELSE report_event([W EXCEPT !.rx = Append(@, payload)], "DATA_RECEIVED")

RobustStack_on_datagram(W, payload) ==
    IF Len(payload) = 0
    THEN W
    ELSE report_event([W EXCEPT !.dg = Append(@, payload)], "DATAGRAM_RECEIVED")

send_keepalive(W) ==
    down_layer_send(W, Packet(TRANSPORT_PACKET_TYPE_KEEPALIVE, W.t.connection_id_, 0, <<>>))

send_syn(W) ==
    down_layer_send(W, Packet(TRANSPORT_PACKET_TYPE_SYN, TRANSPORT_CONNECTION_ID_INVALID,
                              W.t.sequence_number_, <<>>))

send_syn_ack(W) ==
    LET next == (W.t.connection_id_ + 1) % 256
        id == IF next = TRANSPORT_CONNECTION_ID_INVALID
              THEN TRANSPORT_CONNECTION_ID_START ELSE next
        W1 == [W EXCEPT !.t.connection_id_ = id]
    IN  down_layer_send(W1, Packet(TRANSPORT_PACKET_TYPE_SYN_ACK, id,
                                   W1.t.sequence_number_, <<>>))

send_ack(W, connection_id, sequence_number) ==
    down_layer_send(W, Packet(TRANSPORT_PACKET_TYPE_ACK, connection_id, sequence_number, <<>>))

send_fin(W) ==
    down_layer_send(W, Packet(TRANSPORT_PACKET_TYPE_FIN, W.t.connection_id_,
                              W.t.sequence_number_, <<>>))

send_data_ack(W, connection_id, sequence_number) ==
    down_layer_send(W, Packet(TRANSPORT_PACKET_TYPE_DATA_ACK, connection_id,
                              sequence_number, <<>>))

send_data_nack(W, connection_id, sequence_number) ==
    down_layer_send(W, Packet(TRANSPORT_PACKET_TYPE_DATA_NACK, connection_id,
                              sequence_number, <<>>))

(***************************************************************************)
(* Packet handlers                                                         *)
(***************************************************************************)
handle_syn_packet(W, connection_id, sequence_number) ==
    LET W1 == [W EXCEPT !.t.peer_sequence_number_ = sequence_number]
    IN  IF W1.t.state_ = "CONNECTED" /\ connection_id = TRANSPORT_CONNECTION_ID_INVALID
        THEN transport_report_event([W1 EXCEPT !.t.state_ = "DISCONNECTED"], "ERROR")
        ELSE IF W1.t.state_ # "LISTENING"
        THEN W1
        ELSE IF connection_id # TRANSPORT_CONNECTION_ID_INVALID
        THEN W1
        ELSE send_syn_ack([W1 EXCEPT !.t.state_ = "CONNECTING",
                                     !.t.waiting_response_ = TRUE,
                                     !.t.sequence_number_ = W.now[2] % 256])

\* handle_syn_ack_packet that does not adopt the server's sequence number
handle_syn_ack_packet_keepseq(W, connection_id, sequence_number) ==
    IF W.t.state_ # "CONNECTING"
    THEN W
    ELSE LET W1 == [W EXCEPT !.t.connection_id_ = connection_id]
             W2 == send_ack(W1, connection_id, sequence_number)
             W3 == [W2 EXCEPT !.t.state_ = "CONNECTED",
                              !.t.waiting_response_ = FALSE,
                              !.t.connect_retries_ = 0,
                              !.t.last_keepalive_ack_time_ = W.now]
         IN  transport_report_event(W3, "CONNECTED")

handle_syn_ack_packet(W, connection_id, sequence_number) ==
    IF W.t.state_ # "CONNECTING"
    THEN W
    ELSE LET W1 == [W EXCEPT !.t.connection_id_ = connection_id,
                             !.t.peer_sequence_number_ = sequence_number]
             W2 == send_ack(W1, connection_id, sequence_number)
             W3 == [W2 EXCEPT !.t.state_ = "CONNECTED",
                              !.t.waiting_response_ = FALSE,
                              !.t.connect_retries_ = 0,
                              !.t.last_keepalive_ack_time_ = W.now]
         IN  transport_report_event(W3, "CONNECTED")

handle_ack_packet(W, connection_id, sequence_number) ==
    IF connection_id # W.t.connection_id_
    THEN W
    ELSE IF W.t.state_ = "CONNECTING"
    THEN IF sequence_number = W.t.sequence_number_
         THEN transport_report_event(
                  [W EXCEPT !.t.state_ = "CONNECTED",
                            !.t.waiting_response_ = FALSE,
                            !.t.connect_retries_ = 0,
                            !.t.last_keepalive_ack_time_ = W.now], "CONNECTED")
         ELSE W
    ELSE IF W.t.state_ = "DISCONNECTING"
    THEN transport_report_event(
             [W EXCEPT !.t.state_ = "DISCONNECTED",
                       !.t.waiting_response_ = FALSE,
                       !.t.connection_id_ = TRANSPORT_CONNECTION_ID_INVALID], "DISCONNECTED")
    ELSE W

\* A handler that sends its own FIN before it acknowledges the peer's
handle_fin_packet_finfirst(W, connection_id) ==
    IF connection_id # W.t.connection_id_
    THEN W
    ELSE IF W.t.state_ # "CONNECTED"
    THEN W
    ELSE LET W1 == send_ack(send_fin(W), connection_id, W.t.sequence_number_)
         IN  [W1 EXCEPT !.t.state_ = "DISCONNECTING", !.t.waiting_response_ = TRUE]

handle_fin_packet(W, connection_id) ==
    IF connection_id # W.t.connection_id_
    THEN W
    ELSE IF W.t.state_ # "CONNECTED"
    THEN W
    ELSE LET W1 == send_fin(send_ack(W, connection_id, W.t.sequence_number_))
         IN  [W1 EXCEPT !.t.state_ = "DISCONNECTING", !.t.waiting_response_ = TRUE]

handle_fin_ack_packet(W, connection_id) ==
    IF connection_id # W.t.connection_id_
    THEN W
    ELSE IF W.t.state_ # "DISCONNECTING"
    THEN W
    ELSE transport_report_event(
             [W EXCEPT !.t.state_ = "DISCONNECTED", !.t.waiting_response_ = FALSE],
             "DISCONNECTED")

\* uint8_t sequence_number against the int expression sequence_number_ - 1
handle_data_ack_packet(W, connection_id, sequence_number) ==
    IF connection_id # W.t.connection_id_
    THEN W
    ELSE IF ~W.t.awaiting_ack_ \/ sequence_number # W.t.sequence_number_ - 1
    THEN W
    ELSE [W EXCEPT !.t.awaiting_ack_ = FALSE]

handle_data_nack_packet(W, connection_id, sequence_number) ==
    IF connection_id # W.t.connection_id_
    THEN W
    ELSE IF ~W.t.awaiting_ack_ \/ sequence_number # W.t.sequence_number_ - 1
    THEN W
    ELSE down_layer_send(W, W.t.last_tx_buffer_)

handle_keepalive_packet(W, connection_id) ==
    IF connection_id # W.t.connection_id_
    THEN [W EXCEPT !.ret = "LAYER_ERROR"]
    ELSE down_layer_send(W, Packet(TRANSPORT_PACKET_TYPE_KEEPALIVE_ACK,
                                   W.t.connection_id_, 0, <<>>))

\* A handler that does not record when the acknowledgement arrived
handle_keepalive_ack_packet_norecord(W, connection_id) ==
    IF connection_id # W.t.connection_id_ THEN [W EXCEPT !.ret = "LAYER_ERROR"] ELSE W

handle_keepalive_ack_packet(W, connection_id) ==
    IF connection_id # W.t.connection_id_
    THEN [W EXCEPT !.ret = "LAYER_ERROR"]
    ELSE [W EXCEPT !.t.last_keepalive_ack_time_ = W.now]

\* handle_data_packet handing the whole packet, header included, to the coordinator
handle_data_packet_whole(W, data) ==
    IF HeaderConnectionId(data) # W.t.connection_id_
    THEN [W EXCEPT !.ret = "LAYER_ERROR"]
    ELSE IF HeaderSequence(data) # W.t.peer_sequence_number_
    THEN [send_data_nack(W, W.t.connection_id_, HeaderSequence(data))
             EXCEPT !.ret = "LAYER_ERROR"]
    ELSE LET W1 == RobustStack_on_receive(W, data)
             W2 == send_data_ack(W1, W.t.connection_id_, HeaderSequence(data))
         IN  [W2 EXCEPT !.t.peer_sequence_number_ = (@ + 1) % 256]

\* handle_data_packet that forgets to advance peer_sequence_number_
handle_data_packet_stale(W, data) ==
    IF HeaderConnectionId(data) # W.t.connection_id_
    THEN [W EXCEPT !.ret = "LAYER_ERROR"]
    ELSE IF HeaderSequence(data) # W.t.peer_sequence_number_
    THEN [send_data_nack(W, W.t.connection_id_, HeaderSequence(data))
             EXCEPT !.ret = "LAYER_ERROR"]
    ELSE send_data_ack(
             RobustStack_on_receive(W, SubSeq(data, TRANSPORT_HEADER_SIZE + 1, Len(data))),
             W.t.connection_id_, HeaderSequence(data))

\* handle_data_packet without the return after the DATA_NACK
handle_data_packet_through(W, data) ==
    IF HeaderConnectionId(data) # W.t.connection_id_
    THEN [W EXCEPT !.ret = "LAYER_ERROR"]
    ELSE LET payload == SubSeq(data, TRANSPORT_HEADER_SIZE + 1, Len(data))
             W0 == IF HeaderSequence(data) # W.t.peer_sequence_number_
                   THEN send_data_nack(W, W.t.connection_id_, HeaderSequence(data))
                   ELSE W
             W1 == RobustStack_on_receive(W0, payload)
             W2 == send_data_ack(W1, W.t.connection_id_, HeaderSequence(data))
         IN  [W2 EXCEPT !.t.peer_sequence_number_ = (@ + 1) % 256]

handle_data_packet(W, data) ==
    IF HeaderConnectionId(data) # W.t.connection_id_
    THEN [W EXCEPT !.ret = "LAYER_ERROR"]
    ELSE LET payload == SubSeq(data, TRANSPORT_HEADER_SIZE + 1, Len(data))
         IN  IF HeaderSequence(data) # W.t.peer_sequence_number_
             THEN [send_data_nack(W, W.t.connection_id_, HeaderSequence(data))
                      EXCEPT !.ret = "LAYER_ERROR"]
             ELSE LET W1 == RobustStack_on_receive(W, payload)
                      W2 == send_data_ack(W1, W.t.connection_id_, HeaderSequence(data))
                  IN  [W2 EXCEPT !.t.peer_sequence_number_ = (@ + 1) % 256]

handle_datagram_packet(W, data) ==
    RobustStack_on_datagram(W, SubSeq(data, 3, Len(data)))

\* Dispatch with the state test of the DATA case left out
Dispatch_data_anywhere(state, type) ==
    CASE type = TRANSPORT_PACKET_TYPE_SYN -> state \in {"LISTENING", "CONNECTED"}
      [] type = TRANSPORT_PACKET_TYPE_SYN_ACK -> state = "CONNECTING"
      [] type = TRANSPORT_PACKET_TYPE_ACK -> state \in {"CONNECTING", "DISCONNECTING"}
      [] type = TRANSPORT_PACKET_TYPE_FIN -> state = "CONNECTED"
      [] type = TRANSPORT_PACKET_TYPE_FIN_ACK -> state = "DISCONNECTING"
      [] type = TRANSPORT_PACKET_TYPE_DATA -> TRUE
      [] type = TRANSPORT_PACKET_TYPE_DATA_ACK -> state = "CONNECTED"
      [] type = TRANSPORT_PACKET_TYPE_DATA_NACK -> state = "CONNECTED"
      [] type = TRANSPORT_PACKET_TYPE_KEEPALIVE -> state = "CONNECTED"
      [] type = TRANSPORT_PACKET_TYPE_KEEPALIVE_ACK -> state = "CONNECTED"
      [] type = TRANSPORT_PACKET_TYPE_DATAGRAM -> state # "ERROR"
      [] OTHER -> FALSE

\* The (state, TYPE) pairs for which TransportLayer::on_receive calls a handler
Dispatch(state, type) ==
    CASE type = TRANSPORT_PACKET_TYPE_SYN -> state \in {"LISTENING", "CONNECTED"}
      [] type = TRANSPORT_PACKET_TYPE_SYN_ACK -> state = "CONNECTING"
      [] type = TRANSPORT_PACKET_TYPE_ACK -> state \in {"CONNECTING", "DISCONNECTING"}
      [] type = TRANSPORT_PACKET_TYPE_FIN -> state = "CONNECTED"
      [] type = TRANSPORT_PACKET_TYPE_FIN_ACK -> state = "DISCONNECTING"
      [] type = TRANSPORT_PACKET_TYPE_DATA -> state = "CONNECTED"
      [] type = TRANSPORT_PACKET_TYPE_DATA_ACK -> state = "CONNECTED"
      [] type = TRANSPORT_PACKET_TYPE_DATA_NACK -> state = "CONNECTED"
      [] type = TRANSPORT_PACKET_TYPE_KEEPALIVE -> state = "CONNECTED"
      [] type = TRANSPORT_PACKET_TYPE_KEEPALIVE_ACK -> state = "CONNECTED"
      [] type = TRANSPORT_PACKET_TYPE_DATAGRAM -> state # "ERROR"
      [] OTHER -> FALSE

TransportLayer_on_receive(W, data) ==
    IF Len(data) = 0 \/ Len(data) < TRANSPORT_HEADER_SIZE
    THEN [W EXCEPT !.ret = "LAYER_ERROR"]
    ELSE IF HeaderType(data) >= TRANSPORT_PACKET_TYPE_MAX
    THEN [W EXCEPT !.ret = "LAYER_ERROR"]
    ELSE IF ~Dispatch(W.t.state_, HeaderType(data))
    THEN [W EXCEPT !.ret = "LAYER_ERROR"]
    ELSE LET type == HeaderType(data)
             id == HeaderConnectionId(data)
             sq == HeaderSequence(data)
         IN  CASE type = TRANSPORT_PACKET_TYPE_SYN -> handle_syn_packet(W, id, sq)
               [] type = TRANSPORT_PACKET_TYPE_SYN_ACK -> handle_syn_ack_packet(W, id, sq)
               [] type = TRANSPORT_PACKET_TYPE_ACK -> handle_ack_packet(W, id, sq)
               [] type = TRANSPORT_PACKET_TYPE_FIN -> handle_fin_packet(W, id)
               [] type = TRANSPORT_PACKET_TYPE_FIN_ACK -> handle_fin_ack_packet(W, id)
               [] type = TRANSPORT_PACKET_TYPE_DATA -> handle_data_packet(W, data)
               [] type = TRANSPORT_PACKET_TYPE_DATA_ACK -> handle_data_ack_packet(W, id, sq)
               [] type = TRANSPORT_PACKET_TYPE_DATA_NACK -> handle_data_nack_packet(W, id, sq)
               [] type = TRANSPORT_PACKET_TYPE_KEEPALIVE -> handle_keepalive_packet(W, id)
               [] type = TRANSPORT_PACKET_TYPE_KEEPALIVE_ACK ->
                      handle_keepalive_ack_packet(W, id)
               [] OTHER -> handle_datagram_packet(W, data)

(***************************************************************************)
(* Transport Layer entry points                                            *)
(***************************************************************************)
TransportLayer_connect(W) ==
    IF W.t.state_ = "CONNECTED"
    THEN [W EXCEPT !.ret = "SUCCESS"]
    ELSE IF W.t.state_ # "DISCONNECTED"
    THEN [W EXCEPT !.ret = "TRANSPORT_ERROR_INVALID_STATE"]
    ELSE send_syn([W EXCEPT !.t.state_ = "CONNECTING",
                            !.t.connect_retries_ = 0,
                            !.t.waiting_response_ = TRUE,
                            !.t.sequence_number_ = W.now[2] % 256,
                            !.t.peer_sequence_number_ = 0,
                            !.ret = "SUCCESS"])

TransportLayer_listen(W) ==
    IF W.t.state_ \in {"LISTENING", "CONNECTED"}
    THEN [W EXCEPT !.ret = "SUCCESS"]
    ELSE IF W.t.state_ # "DISCONNECTED"
    THEN [W EXCEPT !.ret = "TRANSPORT_ERROR_INVALID_STATE"]
    ELSE [W EXCEPT !.t.state_ = "LISTENING",
                   !.t.sequence_number_ = 0,
                   !.t.peer_sequence_number_ = 0,
                   !.ret = "SUCCESS"]

TransportLayer_disconnect(W) ==
    IF W.t.state_ # "CONNECTED"
    THEN [W EXCEPT !.ret = "TRANSPORT_ERROR_NOT_CONNECTED"]
    ELSE send_fin([W EXCEPT !.t.state_ = "DISCONNECTING",
                            !.t.waiting_response_ = TRUE,
                            !.ret = "SUCCESS"])

TransportLayer_send(W, data) ==
    IF Len(data) = 0 \/ Len(data) > TRANSPORT_MAX_PAYLOAD_SIZE
    THEN [W EXCEPT !.ret = "TRANSPORT_ERROR_INVALID_PARAMS"]
    ELSE IF W.t.state_ # "CONNECTED"
    THEN [W EXCEPT !.ret = "TRANSPORT_ERROR_INVALID_STATE"]
    ELSE LET W1 == [W EXCEPT !.t.last_tx_buffer_ =
                        Packet(TRANSPORT_PACKET_TYPE_DATA, W.t.connection_id_,
                               W.t.sequence_number_, data)]
             W2 == down_layer_send(W1, W1.t.last_tx_buffer_)
         IN  [W2 EXCEPT !.t.waiting_response_ = TRUE,
                        !.t.last_tx_time_ = W.now,
                        !.t.sequence_number_ = (@ + 1) % 256,
                        !.ret = "SUCCESS"]

\* A tick() that waits four keep-alive intervals before it gives the connection up
TransportLayer_tick_lenient(W) ==
    CASE W.t.state_ = "CONNECTED" ->
            IF ElapsedOver(W.now, W.t.last_keepalive_ack_time_, KeepaliveMs * 4)
            THEN transport_report_event([W EXCEPT !.t.state_ = "DISCONNECTING"], "TIMEOUT")
            ELSE IF ElapsedOver(W.now, W.t.last_keepalive_ack_time_, KeepaliveMs)
            THEN send_keepalive(W)
            ELSE W
      [] W.t.state_ = "CONNECTING" ->
            IF W.t.waiting_response_ /\ ElapsedOver(W.now, W.t.last_tx_time_, TimeoutMs)
            THEN IF W.t.connect_retries_ < TRANSPORT_MAX_RETRIES
                 THEN send_syn([W EXCEPT !.t.connect_retries_ = @ + 1])
                 ELSE transport_report_event([W EXCEPT !.t.state_ = "ERROR"], "TIMEOUT")
            ELSE W
      [] W.t.state_ = "DISCONNECTING" ->
            IF W.t.waiting_response_ /\ ElapsedOver(W.now, W.t.last_tx_time_, TimeoutMs)
            THEN transport_report_event(
                     [W EXCEPT !.t.state_ = "DISCONNECTED",
                               !.t.waiting_response_ = FALSE,
                               !.t.connection_id_ = TRANSPORT_CONNECTION_ID_INVALID],
                     "DISCONNECTED")
            ELSE W
      [] OTHER -> W

\* A tick() that retransmits the SYN once more than TRANSPORT_MAX_RETRIES times
TransportLayer_tick_endless(W) ==
    CASE W.t.state_ = "CONNECTED" ->
            IF ElapsedOver(W.now, W.t.last_keepalive_ack_time_, KeepaliveMs * 3)
            THEN transport_report_event([W EXCEPT !.t.state_ = "DISCONNECTING"], "TIMEOUT")
            ELSE IF ElapsedOver(W.now, W.t.last_keepalive_ack_time_, KeepaliveMs)
            THEN send_keepalive(W)
            ELSE W
      [] W.t.state_ = "CONNECTING" ->
            IF W.t.waiting_response_ /\ ElapsedOver(W.now, W.t.last_tx_time_, TimeoutMs)
            THEN IF W.t.connect_retries_ <= TRANSPORT_MAX_RETRIES
                 THEN send_syn([W EXCEPT !.t.connect_retries_ = @ + 1])
                 ELSE transport_report_event([W EXCEPT !.t.state_ = "ERROR"], "TIMEOUT")
            ELSE W
      [] W.t.state_ = "DISCONNECTING" ->
            IF W.t.waiting_response_ /\ ElapsedOver(W.now, W.t.last_tx_time_, TimeoutMs)
            THEN transport_report_event(
                     [W EXCEPT !.t.state_ = "DISCONNECTED",
                               !.t.waiting_response_ = FALSE,
                               !.t.connection_id_ = TRANSPORT_CONNECTION_ID_INVALID],
                     "DISCONNECTED")
            ELSE W
      [] OTHER -> W

TransportLayer_tick(W) ==
    CASE W.t.state_ = "CONNECTED" ->
            IF ElapsedOver(W.now, W.t.last_keepalive_ack_time_, KeepaliveMs * 3)
            THEN transport_report_event([W EXCEPT !.t.state_ = "DISCONNECTING"], "TIMEOUT")
            ELSE IF ElapsedOver(W.now, W.t.last_keepalive_ack_time_, KeepaliveMs)
            THEN send_keepalive(W)
            ELSE W
      [] W.t.state_ = "CONNECTING" ->
            IF W.t.waiting_response_ /\ ElapsedOver(W.now, W.t.last_tx_time_, TimeoutMs)
            THEN IF W.t.connect_retries_ < TRANSPORT_MAX_RETRIES
                 THEN send_syn([W EXCEPT !.t.connect_retries_ = @ + 1])
                 ELSE transport_report_event([W EXCEPT !.t.state_ = "ERROR"], "TIMEOUT")
            ELSE W
      [] W.t.state_ = "DISCONNECTING" ->
            IF W.t.waiting_response_ /\ ElapsedOver(W.now, W.t.last_tx_time_, TimeoutMs)
            THEN transport_report_event(
                     [W EXCEPT !.t.state_ = "DISCONNECTED",
                               !.t.waiting_response_ = FALSE,
                               !.t.connection_id_ = TRANSPORT_CONNECTION_ID_INVALID],
                     "DISCONNECTED")
            ELSE W
      [] OTHER -> W

(***************************************************************************)
(* Stack Coordinator entry points                                          *)
(***************************************************************************)
IsError(ret) == ret # "SUCCESS"

RobustStack_connect(W) ==
    IF W.s = "CONNECTED"
    THEN [W EXCEPT !.ret = "SUCCESS"]
    ELSE IF W.s # "READY"
    THEN [W EXCEPT !.ret = "ROBUST_ERROR_INVALID_STATE"]
    ELSE LET W1 == TransportLayer_connect([W EXCEPT !.s = "CONNECTING"])
         IN  IF IsError(W1.ret)
             THEN report_event([W1 EXCEPT !.s = "ERROR"], "ERROR")
             ELSE W1

RobustStack_listen(W) ==
    IF W.s \in {"CONNECTING", "CONNECTED"}
    THEN [W EXCEPT !.ret = "SUCCESS"]
    ELSE IF W.s # "READY"
    THEN [W EXCEPT !.ret = "ROBUST_ERROR_INVALID_STATE"]
    ELSE LET W1 == TransportLayer_listen([W EXCEPT !.s = "CONNECTING"])
         IN  IF IsError(W1.ret)
             THEN report_event([W1 EXCEPT !.s = "ERROR"], "ERROR")
             ELSE W1

RobustStack_disconnect(W) ==
    IF W.s # "CONNECTED"
    THEN [W EXCEPT !.ret = "ROBUST_ERROR_NOT_CONNECTED"]
    ELSE LET W1 == TransportLayer_disconnect(W)
         IN  IF IsError(W1.ret)
             THEN report_event([W1 EXCEPT !.s = "ERROR"], "ERROR")
             ELSE report_event([W1 EXCEPT !.s = "READY"], "DISCONNECTED")

RobustStack_send(W, data) ==
    IF Len(data) = 0
    THEN [W EXCEPT !.ret = "LAYER_ERROR_INVALID_PARAM"]
    ELSE IF W.s # "CONNECTED"
    THEN [W EXCEPT !.ret = "LAYER_ERROR_INVALID_STATE"]
    ELSE LET W1 == TransportLayer_send(W, data)
         IN  IF IsError(W1.ret) THEN W1 ELSE report_event(W1, "DATA_SENT")

RobustStack_tick(W) == TransportLayer_tick(W)

\* The packet is TYPE, LENGTH and the payload: it has no CONN_ID and no SEQ byte
TransportLayer_send_datagram(W, data) ==
    IF Len(data) > TRANSPORT_MAX_PAYLOAD_SIZE
    THEN [W EXCEPT !.ret = "TRANSPORT_ERROR_INVALID_PARAMS"]
    ELSE [down_layer_send(W, <<TRANSPORT_PACKET_TYPE_DATAGRAM, Len(data) % 256>> \o data)
              EXCEPT !.ret = "SUCCESS"]

RobustStack_send_datagram(W, data) ==
    IF Len(data) = 0
    THEN [W EXCEPT !.ret = "LAYER_ERROR_INVALID_PARAM"]
    ELSE IF W.s # "READY" /\ W.s # "CONNECTED"
    THEN [W EXCEPT !.ret = "LAYER_ERROR_INVALID_STATE"]
    ELSE LET W1 == TransportLayer_send_datagram(W, data)
         IN  IF IsError(W1.ret) THEN W1 ELSE report_event(W1, "DATA_SENT")

(***************************************************************************)
(* Part 1: framing primitives                                              *)
(***************************************************************************)
CRC_POLYNOMIAL == 4129
CRC_INITIAL_VALUE == 65535
COBS_BLOCK_SIZE == 254
COBS_DELIMITER == 0
COBS_MAX_CODE == 255
COBS_MAX_ENCODED_SIZE == 257
COBS_ERROR_INVALID_INPUT == -6
COBS_ERROR_OUTPUT_TOO_SMALL == -7
COBS_ERROR_INCOMPLETE == -8

RECURSIVE Xor(_, _)
\* Bitwise exclusive or of two naturals
Xor(a, b) ==
    IF a = 0 THEN b
    ELSE IF b = 0 THEN a
    ELSE (((a % 2) + (b % 2)) % 2) + 2 * Xor(a \div 2, b \div 2)

RECURSIVE CrcShift(_, _)
\* n shifts of the 16-bit register, most significant bit first, no reflection
CrcShift(crc, n) ==
    IF n = 0 THEN crc
    ELSE CrcShift(IF crc >= 32768 THEN Xor((crc * 2) % WORD, CRC_POLYNOMIAL)
                  ELSE crc * 2, n - 1)

\* CRC16_TABLE[b] is the register after the byte b went through a register of 0
CRC16_TABLE == [b \in 0..255 |-> CrcShift(b * 256, 8)]

\* Exclusive or of two bytes
XorByte == [a \in 0..255 |-> [b \in 0..255 |-> Xor(a, b)]]

\* One byte through the register: (crc << 8) ^ CRC16_TABLE[(crc >> 8) ^ byte]
CrcByte(crc, byte) ==
    LET entry == CRC16_TABLE[XorByte[crc \div 256][byte]]
    IN  (XorByte[crc % 256][entry \div 256] * 256) + (entry % 256)

\* CRC16::calculate: CRC-16-CCITT, initial value 0xFFFF, no final exclusive or.
\* reg[<<first, last, crc>>] is the register after the bytes data[first..last] went
\* through it, one after the other, starting from crc
CRC16_calculate(data) ==
    LET reg[r \in (1..(Len(data) + 1)) \X (0..Len(data)) \X (0..(WORD - 1))] ==
            IF r[1] > r[2] THEN r[3]
            ELSE IF r[1] = r[2] THEN CrcByte(r[3], data[r[1]])
            ELSE reg[<<((r[1] + r[2]) \div 2) + 1, r[2],
                       reg[<<r[1], (r[1] + r[2]) \div 2, r[3]>>]>>]
    IN  reg[<<1, Len(data), CRC_INITIAL_VALUE>>]

\* The smallest element of a non-empty set of integers
Min(S) == CHOOSE i \in S : \A j \in S : i <= j

RECURSIVE EncodeFrom(_, _, _, _, _)
\* The loop of COBS::encode, a run of non-zero bytes at a time; output[code_index] is the
\* place kept for the run length
EncodeFrom(input, read_index, output, code_index, code) ==
    IF read_index > Len(input)
    THEN [output EXCEPT ![code_index] = code]
    ELSE IF input[read_index] = 0
    THEN EncodeFrom(input, read_index + 1,
                    Append([output EXCEPT ![code_index] = code], 0), Len(output) + 1, 1)
    ELSE LET stop == Min({j \in read_index..Len(input) : input[j] = 0} \cup {Len(input) + 1})
             n == Min({stop - read_index, COBS_MAX_CODE - code})
             copied == output \o SubSeq(input, read_index, read_index + n - 1)
         IN  IF code + n = COBS_MAX_CODE
             THEN EncodeFrom(input, read_index + n,
                             Append([copied EXCEPT ![code_index] = code + n], 0),
                             Len(copied) + 1, 1)
             ELSE EncodeFrom(input, read_index + n, copied, code_index, code + n)

COBS_encode(input, output_size) ==
    IF Len(input) = 0
    THEN [ret |-> 0, output |-> <<>>]
    ELSE IF Len(input) > COBS_BLOCK_SIZE
    THEN [ret |-> COBS_ERROR_INVALID_INPUT, output |-> <<>>]
    ELSE IF output_size < Len(input) + (Len(input) \div 254) + 1
    THEN [ret |-> COBS_ERROR_OUTPUT_TOO_SMALL, output |-> <<>>]
    ELSE LET output == EncodeFrom(input, 1, <<0>>, 1, 1)
         IN  [ret |-> Len(output), output |-> output]

RECURSIVE DecodeFrom_nozero(_, _, _, _)
\* A decoding loop that never puts back the zero a code byte stands for
DecodeFrom_nozero(input, frame_end, read_index, output) ==
    IF read_index >= frame_end
    THEN [ret |-> Len(output), output |-> output, consumed_length |-> frame_end + 1]
    ELSE LET code == input[read_index + 1]
             last == read_index + code
         IN  IF code = 0 \/ last > frame_end
             THEN [ret |-> COBS_ERROR_INVALID_INPUT, output |-> output, consumed_length |-> 0]
             ELSE DecodeFrom_nozero(input, frame_end, last,
                                    output \o SubSeq(input, read_index + 2, last))

RECURSIVE DecodeFrom(_, _, _, _)
\* The loop of COBS::decode; read_index counts the bytes read so far
DecodeFrom(input, frame_end, read_index, output) ==
    IF read_index >= frame_end
    THEN [ret |-> Len(output), output |-> output, consumed_length |-> frame_end + 1]
    ELSE LET code == input[read_index + 1]
             last == read_index + code
         IN  IF code = 0 \/ last > frame_end
             THEN [ret |-> COBS_ERROR_INVALID_INPUT, output |-> output, consumed_length |-> 0]
             ELSE LET copied == output \o SubSeq(input, read_index + 2, last)
                  IN  DecodeFrom(input, frame_end, last,
                                 IF code < COBS_MAX_CODE /\ last < frame_end
                                 THEN Append(copied, 0) ELSE copied)

\* A decoder that does not count the delimiter among the bytes it consumed
COBS_decode_nodelimiter(input, output_size) ==
    LET frame_end == Min({i \in 1..Len(input) : input[i] = COBS_DELIMITER}
                         \cup {Len(input) + 1}) - 1
    IN  [DecodeFrom(input, frame_end, 0, <<>>) EXCEPT !.consumed_length = frame_end]

\* consumed_length is 0 where COBS::decode leaves the caller's value
COBS_decode(input, output_size) ==
    LET delimiters == {i \in 1..Len(input) : input[i] = COBS_DELIMITER}
        frame_end == Min(delimiters) - 1
    IN  IF Len(input) = 0
        THEN [ret |-> 0, output |-> <<>>, consumed_length |-> 0]
        ELSE IF delimiters = {}
        THEN [ret |-> COBS_ERROR_INCOMPLETE, output |-> <<>>, consumed_length |-> 0]
        ELSE IF frame_end = 0
        THEN [ret |-> 0, output |-> <<>>, consumed_length |-> 1]
        ELSE IF output_size < frame_end
        THEN [ret |-> COBS_ERROR_OUTPUT_TOO_SMALL, output |-> <<>>, consumed_length |-> 0]
        ELSE DecodeFrom(input, frame_end, 0, <<>>)

(***************************************************************************)
(* Part 2: Link Layer.  Every operation yields the LinkLayer members l,    *)
(* the return value, the events reported, the payloads handed to the       *)
(* upper layer, and whether it stored a byte outside encoded_buffer_.      *)
(***************************************************************************)
LINK_HEADER_SIZE == 2
LINK_CRC_SIZE == 2
LINK_MIN_FRAME_SIZE == 4
LINK_MAX_FRAME_SIZE == 254
LINK_MAX_PAYLOAD_SIZE == 250
LINK_OUTGOING_BUFFER_SIZE == 514
LINK_INCOMING_BUFFER_SIZE == 514
LINK_FRAME_TYPE_DATA == 1

\* The state after LinkLayer's construction and initialize()
LinkInit ==
    [state_ |-> "READY", encoded_length_ |-> 0, outgoing_buffer_ |-> <<>>,
     incoming_buffer_ |-> <<>>]

LinkCall(l) == [l |-> l, ret |-> 0, events |-> <<>>, up |-> <<>>, wild |-> FALSE]

LinkLayer_reset(R) ==
    [R EXCEPT !.l.state_ = "READY", !.l.encoded_length_ = 0, !.events = Append(@, "READY")]

\* The frame before encoding: TYPE, LENGTH, payload, CRC16 with the low byte first
Frame(data) ==
    LET header == <<LINK_FRAME_TYPE_DATA, Len(data) % 256>>
        crc == CRC16_calculate(header \o data)
    IN  header \o data \o <<crc % 256, (crc \div 256) % 256>>

\* data is a buffer that is not null; encoded_length_ is a uint16_t
LinkLayer_send(l, data) ==
    IF Len(data) > LINK_MAX_PAYLOAD_SIZE
    THEN [LinkCall(l) EXCEPT !.events = <<"ERROR">>, !.ret = "LINK_ERROR_INVALID_PARAM"]
    ELSE LET R == IF l.state_ = "ERROR" THEN LinkLayer_reset(LinkCall(l)) ELSE LinkCall(l)
             encoded == COBS_encode(Frame(data), LINK_MAX_FRAME_SIZE)
             encoded_length == encoded.ret % WORD
         IN  IF encoded_length < 0
             THEN [R EXCEPT !.l.state_ = "ERROR",
                            !.l.encoded_length_ = encoded_length,
                            !.events = Append(@, "ERROR"),
                            !.ret = "LINK_ERROR_GENERAL"]
             ELSE LET stored == [R EXCEPT !.l.encoded_length_ = (encoded_length + 1) % WORD,
                                          !.wild = encoded_length >= COBS_MAX_ENCODED_SIZE]
                  IN  IF Len(l.outgoing_buffer_) + stored.l.encoded_length_
                            > LINK_OUTGOING_BUFFER_SIZE
                      THEN [stored EXCEPT !.events = Append(@, "ERROR"),
                                          !.ret = "LINK_ERROR_BUFFER_FULL"]
                      ELSE [stored EXCEPT
                               !.l.outgoing_buffer_ = @ \o encoded.output \o <<COBS_DELIMITER>>,
                               !.events = Append(@, "OUTGOING_DATA_AVAILABLE"),
                               !.ret = "LINK_SUCCESS"]

\* An egress ring that is never compacted
LinkLayer_process_outgoing_data_nocompact(l, result) ==
    [LinkCall(l) EXCEPT !.ret = IF Len(l.outgoing_buffer_) > 0 /\ l.state_ = "READY"
                                THEN result ELSE 0]

\* result is what the Physical Layer's send returns: the number of bytes it took
LinkLayer_process_outgoing_data(l, result) ==
    IF Len(l.outgoing_buffer_) > 0 /\ l.state_ = "READY"
    THEN [LinkCall(l) EXCEPT
             !.l.outgoing_buffer_ = IF result > 0 THEN SubSeq(@, result + 1, Len(@)) ELSE @,
             !.ret = result]
    ELSE LinkCall(l)

LinkLayer_on_receive(l, data) ==
    IF Len(l.incoming_buffer_) + Len(data) > LINK_INCOMING_BUFFER_SIZE
    THEN [LinkCall(l) EXCEPT !.l.incoming_buffer_ = <<>>, !.ret = "LINK_ERROR_BUFFER_FULL"]
    ELSE [LinkCall(l) EXCEPT !.l.incoming_buffer_ = @ \o data,
                             !.events = <<"INCOMING_DATA_AVAILABLE">>,
                             !.ret = "LINK_SUCCESS"]

\* The frame at the head of the ring is dropped a byte at a time: COBS::decode failed on
\* it or gave fewer than LINK_MIN_FRAME_SIZE bytes
Rejected(incoming) ==
    LET decoded_length == COBS_decode(incoming, LINK_MAX_FRAME_SIZE).ret
    IN  /\ decoded_length # COBS_ERROR_INCOMPLETE
        /\ decoded_length < LINK_MIN_FRAME_SIZE \/ decoded_length < 0

\* The number of passes of the loop that drop one byte each, from a ring whose head is
\* rejected, until the ring is empty or its head is no longer rejected
DroppedBytes(incoming) ==
    Min({k \in 1..Len(incoming) :
            k = Len(incoming) \/ ~Rejected(SubSeq(incoming, k + 1, Len(incoming)))})

RECURSIVE ProcessFrames_nocrc(_)
\* A loop that hands up every DATA frame of the right length, whatever its CRC
ProcessFrames_nocrc(R) ==
    LET incoming == R.l.incoming_buffer_
        decoded == COBS_decode(incoming, LINK_MAX_FRAME_SIZE)
        after == [R EXCEPT !.l.incoming_buffer_ =
                               SubSeq(incoming, decoded.consumed_length + 1, Len(incoming))]
    IN  IF Len(incoming) = 0 \/ decoded.ret = COBS_ERROR_INCOMPLETE THEN R
        ELSE IF decoded.ret < LINK_MIN_FRAME_SIZE
        THEN ProcessFrames_nocrc([R EXCEPT !.l.incoming_buffer_ = Tail(incoming)])
        ELSE IF decoded.output[2] > LINK_MAX_PAYLOAD_SIZE
                \/ decoded.ret # decoded.output[2] + LINK_MIN_FRAME_SIZE
                \/ decoded.output[1] # LINK_FRAME_TYPE_DATA
        THEN ProcessFrames_nocrc(after)
        ELSE ProcessFrames_nocrc(
                 [after EXCEPT
                     !.up = Append(@, SubSeq(decoded.output, LINK_HEADER_SIZE + 1,
                                             LINK_HEADER_SIZE + decoded.output[2])),
                     !.events = Append(@, "FRAME_RECEIVED")])

RECURSIVE ProcessFrames_stop(_)
\* A loop that ends at the first frame whose CRC does not match
ProcessFrames_stop(R) ==
    LET incoming == R.l.incoming_buffer_
        decoded == COBS_decode(incoming, LINK_MAX_FRAME_SIZE)
        decoded_length == decoded.ret
        payload_length == decoded.output[2]
        after == [R EXCEPT !.l.incoming_buffer_ =
                               SubSeq(incoming, decoded.consumed_length + 1, Len(incoming))]
    IN  IF Len(incoming) = 0 THEN R
        ELSE IF decoded_length = COBS_ERROR_INCOMPLETE THEN R
        ELSE IF decoded_length < LINK_MIN_FRAME_SIZE \/ decoded_length < 0
        THEN ProcessFrames_stop([R EXCEPT !.l.incoming_buffer_ =
                                              SubSeq(incoming, DroppedBytes(incoming) + 1,
                                                     Len(incoming))])
        ELSE IF payload_length > LINK_MAX_PAYLOAD_SIZE
                \/ decoded_length # payload_length + LINK_MIN_FRAME_SIZE
        THEN ProcessFrames_stop(after)
        ELSE IF CRC16_calculate(SubSeq(decoded.output, 1, decoded_length - LINK_CRC_SIZE))
                = decoded.output[decoded_length - 1] + 256 * decoded.output[decoded_length]
        THEN IF decoded.output[1] = LINK_FRAME_TYPE_DATA
             THEN ProcessFrames_stop(
                      [after EXCEPT
                          !.up = Append(@, SubSeq(decoded.output, LINK_HEADER_SIZE + 1,
                                                  LINK_HEADER_SIZE + payload_length)),
                          !.l.state_ = "READY",
                          !.events = Append(@, "FRAME_RECEIVED")])
             ELSE ProcessFrames_stop([after EXCEPT !.l.state_ = "ERROR"])
        ELSE [after EXCEPT !.l.state_ = "ERROR", !.events = Append(@, "CRC_ERROR")]

RECURSIVE ProcessFrames(_)
\* The loop of LinkLayer::process_incoming_data, a frame or a run of dropped bytes at a time
ProcessFrames(R) ==
    LET incoming == R.l.incoming_buffer_
        decoded == COBS_decode(incoming, LINK_MAX_FRAME_SIZE)
        decoded_length == decoded.ret
        payload_length == decoded.output[2]
        after == [R EXCEPT !.l.incoming_buffer_ =
                               SubSeq(incoming, decoded.consumed_length + 1, Len(incoming))]
    IN  IF Len(incoming) = 0 THEN R
        ELSE IF decoded_length = COBS_ERROR_INCOMPLETE THEN R
        ELSE IF decoded_length < LINK_MIN_FRAME_SIZE \/ decoded_length < 0
        THEN ProcessFrames([R EXCEPT !.l.incoming_buffer_ =
                                         SubSeq(incoming, DroppedBytes(incoming) + 1,
                                                Len(incoming))])
        ELSE IF payload_length > LINK_MAX_PAYLOAD_SIZE
                \/ decoded_length # payload_length + LINK_MIN_FRAME_SIZE
        THEN ProcessFrames(after)
        ELSE IF CRC16_calculate(SubSeq(decoded.output, 1, decoded_length - LINK_CRC_SIZE))
                = decoded.output[decoded_length - 1] + 256 * decoded.output[decoded_length]
        THEN IF decoded.output[1] = LINK_FRAME_TYPE_DATA
             THEN ProcessFrames(
                      [after EXCEPT
                          !.up = Append(@, SubSeq(decoded.output, LINK_HEADER_SIZE + 1,
                                                  LINK_HEADER_SIZE + payload_length)),
                          !.l.state_ = "READY",
                          !.events = Append(@, "FRAME_RECEIVED")])
             ELSE ProcessFrames([after EXCEPT !.l.state_ = "ERROR"])
        ELSE ProcessFrames([after EXCEPT !.l.state_ = "ERROR",
                                         !.events = Append(@, "CRC_ERROR")])

\* A call that leaves the ingress ring as it is
LinkLayer_process_incoming_data_idle(l) ==
    [LinkCall(l) EXCEPT !.ret = "LINK_SUCCESS"]

LinkLayer_process_incoming_data(l) ==
    [ProcessFrames(LinkCall(l)) EXCEPT !.ret = "LINK_SUCCESS"]

(***************************************************************************)
(* The two stacks on one link                                              *)
(***************************************************************************)
\* get_current_time_ms() of stack p
Clock(p) == U32Add(U32Add(timing.epoch, IF p = 1 THEN 0 ELSE ClockSkew), now)

World(p) ==
    [t |-> transport[p], s |-> stack_state[p], out |-> <<>>, ev |-> events[p],
     rx |-> data_rx[p], dg |-> datagram_rx[p], now |-> Clock(p), ret |-> "SUCCESS"]

NoStep == [who |-> 0, data |-> <<>>, pre |-> TransportInit]
NoCall == [op |-> "none", data |-> <<>>, ret |-> 0, events |-> <<>>]
NoCobs == [phase |-> "idle", input |-> <<>>, encoded |-> COBS_encode(<<>>, 0),
           decoded |-> COBS_decode(<<>>, 0)]
\* The time source starts at 0 and nothing has been observed yet: no call (op), nothing
\* transmitted by it (out), and no time, counted from the start of the run, at which an
\* acknowledgement of a keep-alive arrived or the connection was established (ack_at), a
\* KEEPALIVE was transmitted (probe_at), a SYN, SYN_ACK or FIN was transmitted (waited_at),
\* connect() sent its SYN (connect_at) or DISCONNECTING was entered (entered_at)
NoTiming ==
    [epoch |-> U32(0), op |-> "none", out |-> <<>>, ack_at |-> -1, probe_at |-> -1,
     waited_at |-> -1, connect_at |-> -1, syns |-> 0, timeouts |-> 0, entered_at |-> -1,
     quiet |-> FALSE]

\* No entry point has been called, no listener has put a connection id in a SYN_ACK,
\* send_datagram has not been called and no tick() since the clock last moved
NoApi ==
    [who |-> 0, op |-> "none", data |-> <<>>, ret |-> "SUCCESS",
     allocated |-> [p \in Stacks |-> TRANSPORT_CONNECTION_ID_INVALID], datagrams |-> 0,
     ticked |-> {}]

\* The state after RobustStack's construction and initialize() on both sides
InitTransport ==
    /\ api = NoApi
    /\ transport = [p \in Stacks |-> TransportInit]
    /\ stack_state = [p \in Stacks |-> "READY"]
    /\ chan = [p \in Stacks |-> <<>>]
    /\ events = [p \in Stacks |-> [e \in RobustStackEvents |-> IF e = "READY" THEN 1 ELSE 0]]
    /\ data_rx = [p \in Stacks |-> <<>>]
    /\ data_tx = [p \in Stacks |-> <<>>]
    /\ unacked = [p \in Stacks |-> FALSE]
    /\ datagram_rx = [p \in Stacks |-> <<>>]
    /\ now = 0
    /\ calls = 0
    /\ injected = 0
    /\ step = NoStep

InitLink ==
    /\ link = [p \in Stacks |-> LinkInit]
    /\ link_log = [sent |-> <<>>, delivered |-> <<>>, call |-> NoCall, overflowed |-> FALSE,
                   faulted |-> FALSE, byte_steps |-> 0, wire |-> <<>>,
                   pieces |-> <<>>]

Init ==
    /\ InitTransport
    /\ InitLink
    /\ cobs = NoCobs
    /\ timing = NoTiming

\* What an entry point of stack p leaves behind; in is what stays queued for p
Commit(p, W, in) ==
    /\ Len(chan[Peer(p)]) + Len(W.out) <= MaxQueue
    /\ transport' = [transport EXCEPT ![p] = W.t]
    /\ stack_state' = [stack_state EXCEPT ![p] = W.s]
    /\ chan' = [chan EXCEPT ![p] = in, ![Peer(p)] = @ \o W.out]
    /\ events' = [events EXCEPT ![p] = W.ev]
    /\ data_rx' = [data_rx EXCEPT ![p] = W.rx]
    /\ datagram_rx' = [datagram_rx EXCEPT ![p] = W.dg]
    /\ UNCHANGED <<link_vars, cobs, timing, api>>

\* A call that changed nothing is not counted
Called(p, W) ==
    /\ calls < MaxCalls
    /\ calls' = IF [W EXCEPT !.ret = "SUCCESS"] = World(p) THEN calls ELSE calls + 1

Connect(p) ==
    /\ Called(p, RobustStack_connect(World(p)))
    /\ Commit(p, RobustStack_connect(World(p)), chan[p])
    /\ step' = NoStep
    /\ UNCHANGED <<data_tx, unacked, now, injected>>

Listen(p) ==
    /\ Called(p, RobustStack_listen(World(p)))
    /\ Commit(p, RobustStack_listen(World(p)), chan[p])
    /\ step' = NoStep
    /\ UNCHANGED <<data_tx, unacked, now, injected>>

Disconnect(p) ==
    /\ Called(p, RobustStack_disconnect(World(p)))
    /\ Commit(p, RobustStack_disconnect(World(p)), chan[p])
    /\ step' = NoStep
    /\ UNCHANGED <<data_tx, unacked, now, injected>>

\* The n-th payload a stack sends is filled with n, so that every payload is distinct
Payload(p, len) == [i \in 1..len |-> Len(data_tx[p]) + 1]

Send(p) ==
    /\ Len(data_tx[p]) < MaxSends
    /\ \E len \in 1..MaxPayloadLen :
          LET W == RobustStack_send(World(p), Payload(p, len))
          IN  /\ Commit(p, W, chan[p])
              /\ data_tx' = IF IsError(W.ret) THEN data_tx
                            ELSE [data_tx EXCEPT ![p] = Append(@, Payload(p, len))]
              /\ unacked' = IF IsError(W.ret) THEN unacked
                            ELSE [unacked EXCEPT ![p] = TRUE]
    /\ step' = NoStep
    /\ UNCHANGED <<now, calls, injected>>

Tick(p) ==
    /\ Commit(p, RobustStack_tick(World(p)), chan[p])
    /\ step' = NoStep
    /\ UNCHANGED <<data_tx, unacked, now, calls, injected>>

\* The time source moves on
Advance ==
    /\ now < MaxTime
    /\ now' = now + 1
    /\ step' = NoStep
    /\ UNCHANGED <<transport, stack_state, chan, events, data_rx, data_tx, unacked,
                   datagram_rx, calls, injected, link_vars, cobs, timing, api>>

\* data is the DATA_ACK for the DATA that p's send() sent last
MatchingDataAck(p, data) ==
    /\ transport[p].state_ = "CONNECTED"
    /\ Len(data) >= TRANSPORT_HEADER_SIZE
    /\ HeaderType(data) = TRANSPORT_PACKET_TYPE_DATA_ACK
    /\ HeaderConnectionId(data) = transport[p].connection_id_
    /\ HeaderSequence(data) = (transport[p].sequence_number_ + 255) % 256

\* p's Link Layer hands a verified frame's payload to p's Transport Layer
Receive(p, data, in) ==
    /\ Commit(p, TransportLayer_on_receive(World(p), data), in)
    /\ unacked' = IF MatchingDataAck(p, data) THEN [unacked EXCEPT ![p] = FALSE]
                  ELSE unacked
    /\ UNCHANGED <<data_tx, now, calls>>

\* The oldest frame queued for p is pumped over the link and reaches p's Transport Layer
Deliver(p) ==
    /\ chan[p] # <<>>
    /\ Receive(p, Head(chan[p]), Tail(chan[p]))
    /\ step' = NoStep
    /\ UNCHANGED injected

\* The oldest frame queued for p is lost or corrupted on the wire (the CRC rejects it)
Lose(p) ==
    /\ chan[p] # <<>>
    /\ chan' = [chan EXCEPT ![p] = Tail(@)]
    /\ step' = NoStep
    /\ UNCHANGED <<transport, stack_state, events, data_rx, data_tx, unacked, datagram_rx,
                   now, calls, injected, link_vars, cobs, timing, api>>

\* Stack 1's user is the client, stack 2's the server
Next ==
    \/ Connect(1)
    \/ Listen(2)
    \/ \E p \in Stacks : Disconnect(p)
    \/ \E p \in Stacks : Send(p)
    \/ \E p \in Stacks : Tick(p)
    \/ Advance
    \/ \E p \in Stacks : Deliver(p)
    \/ \E p \in Stacks : Lose(p)

Spec == Init /\ [][Next]_vars

(***************************************************************************)
(* The handshake alone: a lossless link, every frame pumped, no tick()     *)
(***************************************************************************)
NextHandshake ==
    \/ \E p \in Stacks : Connect(p)
    \/ \E p \in Stacks : Listen(p)
    \/ Advance
    \/ \E p \in Stacks : Deliver(p)

SpecHandshake ==
    Init /\ [][NextHandshake]_vars /\ \A p \in Stacks : WF_vars(Deliver(p))

(***************************************************************************)
(* One stack and an arbitrary peer: stack 2 receives any packet, at a      *)
(* fixed time                                                              *)
(***************************************************************************)
ConnectionIds == {0, 1, 2}
PacketTypes == 0..TRANSPORT_PACKET_TYPE_MAX

\* The sequence numbers that the handler of a packet type can tell apart
Sequences(t, type) ==
    IF type \in {TRANSPORT_PACKET_TYPE_SYN, TRANSPORT_PACKET_TYPE_SYN_ACK}
    THEN {0, 255}
    ELSE IF type = TRANSPORT_PACKET_TYPE_ACK
    THEN {t.sequence_number_, (t.sequence_number_ + 255) % 256}
    ELSE IF type = TRANSPORT_PACKET_TYPE_DATA
    THEN {t.peer_sequence_number_, (t.peer_sequence_number_ + 1) % 256}
    ELSE IF type \in {TRANSPORT_PACKET_TYPE_DATA_ACK, TRANSPORT_PACKET_TYPE_DATA_NACK}
    THEN {t.sequence_number_, (t.sequence_number_ + 255) % 256}
    ELSE {0}

\* A DATA payload repeats the packet's sequence number, so that deliveries can be told apart
Payloads(type, sq) ==
    IF type = TRANSPORT_PACKET_TYPE_DATA THEN {<<>>, <<sq>>}
    ELSE IF type = TRANSPORT_PACKET_TYPE_DATAGRAM THEN {<<9>>}
    ELSE {<<>>}

Packets(t) ==
    UNION {UNION {{Packet(type, id, sq, pl) : id \in ConnectionIds, pl \in Payloads(type, sq)} :
                  sq \in Sequences(t, type)} :
           type \in PacketTypes}
    \cup {<<>>, <<TRANSPORT_PACKET_TYPE_DATA, 1, 0>>}

ReceiveAny ==
    /\ injected < MaxInject
    /\ injected' = injected + 1
    /\ \E data \in Packets(transport[2]) :
          /\ Receive(2, data, chan[2])
          /\ step' = [who |-> 2, data |-> data, pre |-> transport[2]]

\* The peer takes what stack 2 transmits before anything else happens
NextRx ==
    \/ chan[1] = <<>> /\ Connect(2)
    \/ chan[1] = <<>> /\ Listen(2)
    \/ chan[1] = <<>> /\ Disconnect(2)
    \/ chan[1] = <<>> /\ Send(2)
    \/ chan[1] = <<>> /\ Tick(2)
    \/ chan[1] = <<>> /\ ReceiveAny
    \/ Lose(1)

SpecRx == Init /\ [][NextRx]_vars

(***************************************************************************)
(* One stack, its clock and a peer that answers or stays silent: stack 1   *)
(* is called at any time, tick() at any frequency, and what it transmits   *)
(* is taken off the line at once                                           *)
(***************************************************************************)
MaxTimedSends == 1  \* send() calls accepted in a timed run
MaxTimedCalls == 2  \* connect/listen/disconnect calls in a timed run
MaxTimedInject == 3 \* packets the peer sends in a timed run
MaxTimerTime == 6   \* the clock advances at most this far past its start
WrapIn == 3         \* a clock started late passes 2^32 - 1 after this many milliseconds

\* Values of get_current_time_ms() at the start of the run
Epochs == {U32(0), <<WORD - 1, WORD - WrapIn>>}

InitTimer ==
    /\ InitTransport
    /\ InitLink
    /\ cobs = NoCobs
    /\ timing \in {[NoTiming EXCEPT !.epoch = epoch] : epoch \in Epochs}

\* The packets of type among those transmitted
OfType(out, type) == {i \in 1..Len(out) : HeaderType(out[i]) = type}

\* data is a KEEPALIVE_ACK that carries the connection's identifier
MatchingKeepaliveAck(t, data) ==
    /\ Len(data) >= TRANSPORT_HEADER_SIZE
    /\ HeaderType(data) = TRANSPORT_PACKET_TYPE_KEEPALIVE_ACK
    /\ HeaderConnectionId(data) = t.connection_id_

\* What an observer of stack 1 notes of a call op that received data and left W behind
Observe(W, op, data) ==
    LET pre == transport[1]
        established == W.t.state_ = "CONNECTED" /\ pre.state_ # "CONNECTED"
        connecting == op = "connect" /\ OfType(W.out, TRANSPORT_PACKET_TYPE_SYN) # {}
        entering == W.t.state_ = "DISCONNECTING" /\ pre.state_ # "DISCONNECTING"
    IN  [epoch |-> timing.epoch,
         op |-> op,
         out |-> W.out,
         ack_at |-> IF established
                       \/ (op = "receive" /\ pre.state_ = "CONNECTED"
                           /\ MatchingKeepaliveAck(pre, data))
                    THEN now ELSE timing.ack_at,
         probe_at |-> IF OfType(W.out, TRANSPORT_PACKET_TYPE_KEEPALIVE) # {} THEN now
                      ELSE IF established THEN -1 ELSE timing.probe_at,
         waited_at |-> IF OfType(W.out, TRANSPORT_PACKET_TYPE_SYN) # {}
                          \/ OfType(W.out, TRANSPORT_PACKET_TYPE_SYN_ACK) # {}
                          \/ OfType(W.out, TRANSPORT_PACKET_TYPE_FIN) # {}
                       THEN now ELSE timing.waited_at,
         connect_at |-> IF connecting THEN now
                        ELSE IF W.t.state_ \in {"CONNECTING", "ERROR"} THEN timing.connect_at
                        ELSE -1,
         syns |-> (IF connecting THEN 0 ELSE timing.syns)
                  + Cardinality(OfType(W.out, TRANSPORT_PACKET_TYPE_SYN)),
         timeouts |-> (IF connecting THEN 0 ELSE timing.timeouts)
                      + (W.ev["TIMEOUT"] - events[1]["TIMEOUT"]),
         entered_at |-> IF entering THEN now
                        ELSE IF W.t.state_ = "DISCONNECTING" THEN timing.entered_at
                        ELSE -1,
         quiet |-> IF entering THEN TRUE
                   ELSE W.t.state_ = "DISCONNECTING" /\ timing.quiet /\ op # "receive"]

\* What an entry point of stack 1 leaves behind, its transmissions taken by the peer
Timed(W, op, data) ==
    /\ transport' = [transport EXCEPT ![1] = W.t]
    /\ stack_state' = [stack_state EXCEPT ![1] = W.s]
    /\ events' = [events EXCEPT ![1] = W.ev]
    /\ data_rx' = [data_rx EXCEPT ![1] = W.rx]
    /\ datagram_rx' = [datagram_rx EXCEPT ![1] = W.dg]
    /\ timing' = Observe(W, op, data)
    /\ UNCHANGED <<chan, step, link_vars, cobs, api>>

TimedConnect ==
    /\ calls < MaxTimedCalls
    /\ Called(1, RobustStack_connect(World(1)))
    /\ Timed(RobustStack_connect(World(1)), "connect", <<>>)
    /\ UNCHANGED <<data_tx, unacked, now, injected>>

TimedListen ==
    /\ calls < MaxTimedCalls
    /\ Called(1, RobustStack_listen(World(1)))
    /\ Timed(RobustStack_listen(World(1)), "listen", <<>>)
    /\ UNCHANGED <<data_tx, unacked, now, injected>>

TimedDisconnect ==
    /\ calls < MaxTimedCalls
    /\ Called(1, RobustStack_disconnect(World(1)))
    /\ Timed(RobustStack_disconnect(World(1)), "disconnect", <<>>)
    /\ UNCHANGED <<data_tx, unacked, now, injected>>

TimedSend ==
    /\ Len(data_tx[1]) < MaxTimedSends
    /\ LET W == RobustStack_send(World(1), Payload(1, 1))
       IN  /\ ~IsError(W.ret)
           /\ Timed(W, "send", <<>>)
           /\ data_tx' = [data_tx EXCEPT ![1] = Append(@, Payload(1, 1))]
    /\ UNCHANGED <<unacked, now, calls, injected>>

TimedTick ==
    /\ Timed(RobustStack_tick(World(1)), "tick", <<>>)
    /\ UNCHANGED <<data_tx, unacked, now, calls, injected>>

TimedAdvance ==
    /\ now < MaxTimerTime
    /\ now' = now + 1
    /\ timing' = [timing EXCEPT !.op = "advance", !.out = <<>>]
    /\ UNCHANGED <<transport, stack_state, chan, events, data_rx, data_tx, unacked,
                   datagram_rx, calls, injected, step, link_vars, cobs, api>>

\* What the peer may send: the answers of a handshake, of a keep-alive and of a
\* disconnection, with the connection's identifier or another one
TimerPackets(t) ==
    {Packet(TRANSPORT_PACKET_TYPE_SYN, TRANSPORT_CONNECTION_ID_INVALID, 0, <<>>),
     Packet(TRANSPORT_PACKET_TYPE_SYN_ACK, 1, 0, <<>>),
     Packet(TRANSPORT_PACKET_TYPE_ACK, t.connection_id_, t.sequence_number_, <<>>),
     Packet(TRANSPORT_PACKET_TYPE_FIN, t.connection_id_, 0, <<>>),
     Packet(TRANSPORT_PACKET_TYPE_KEEPALIVE_ACK, t.connection_id_, 0, <<>>),
     Packet(TRANSPORT_PACKET_TYPE_KEEPALIVE_ACK, (t.connection_id_ % 255) + 1, 0, <<>>)}

TimedReceive ==
    /\ injected < MaxTimedInject
    /\ injected' = injected + 1
    /\ \E data \in TimerPackets(transport[1]) :
          Timed(TransportLayer_on_receive(World(1), data), "receive", data)
    /\ UNCHANGED <<data_tx, unacked, now, calls>>

NextTimer ==
    \/ TimedConnect
    \/ TimedListen
    \/ TimedDisconnect
    \/ TimedSend
    \/ TimedTick
    \/ TimedAdvance
    \/ TimedReceive

SpecTimer == InitTimer /\ [][NextTimer]_vars

(***************************************************************************)
(* Two Link Layers on a lossless channel: stack 1 sends, stack 2 receives  *)
(***************************************************************************)
\* A long payload of non-zero bytes
Filled(n) == [i \in 1..n |-> ((7 * i) % 255) + 1]

LinkPayloads == {<<>>, <<0, 7, 0>>, Filled(LINK_MAX_PAYLOAD_SIZE - 1),
                 Filled(LINK_MAX_PAYLOAD_SIZE), Filled(LINK_MAX_PAYLOAD_SIZE + 1)}

\* A store outside encoded_buffer_ either goes unnoticed or ends the program
LinkSend(p) ==
    /\ ~link_log.faulted
    /\ Len(link_log.sent) < MaxLinkSends
    /\ \E data \in LinkPayloads :
          LET R == LinkLayer_send(link[p], data)
          IN  \E fault \in (IF R.wild THEN BOOLEAN ELSE {FALSE}) :
                 IF fault
                 THEN /\ link_log' = [link_log EXCEPT
                             !.faulted = TRUE,
                             !.call = [op |-> "send", data |-> data, ret |-> "FAULT",
                                       events |-> <<>>]]
                      /\ UNCHANGED link
                 ELSE /\ link' = [link EXCEPT ![p] = R.l]
                      /\ link_log' = [link_log EXCEPT
                             !.sent = IF R.ret = "LINK_SUCCESS" THEN Append(@, data) ELSE @,
                             !.call = [op |-> "send", data |-> data, ret |-> R.ret,
                                       events |-> R.events]]
    /\ UNCHANGED <<transport_vars, cobs, timing, api>>

\* process_outgoing_data on p: the Physical Layer takes n bytes, carries them over, and
\* the peer's embedder hands them to queue_link_data in one piece
Transfer(p) ==
    /\ ~link_log.faulted
    /\ \E n \in {1, PartChunk, Len(link[p].outgoing_buffer_)} :
          LET R == LinkLayer_process_outgoing_data(link[p], n)
              Q == LinkLayer_on_receive(link[Peer(p)],
                                        SubSeq(link[p].outgoing_buffer_, 1, n))
          IN  /\ n >= 1
              /\ n <= Len(link[p].outgoing_buffer_)
              /\ n = 1 => link_log.byte_steps < MaxByteSteps
              /\ R.ret = n
              /\ link' = [link EXCEPT ![p] = R.l, ![Peer(p)] = Q.l]
              /\ link_log' = [link_log EXCEPT
                     !.overflowed = @ \/ Q.ret = "LINK_ERROR_BUFFER_FULL",
                     !.byte_steps = IF n = 1 THEN @ + 1 ELSE @,
                     !.call = [op |-> "queue_link_data",
                               data |-> SubSeq(link[p].outgoing_buffer_, 1, n),
                               ret |-> Q.ret, events |-> Q.events]]
    /\ UNCHANGED <<transport_vars, cobs, timing, api>>

\* process_incoming_data on p, the device at the far end of the link
ProcessIncoming(p) ==
    /\ Len(link[p].incoming_buffer_) > 0
    /\ LET R == LinkLayer_process_incoming_data(link[p])
       IN  /\ link' = [link EXCEPT ![p] = R.l]
           /\ link_log' = [link_log EXCEPT
                  !.delivered = @ \o R.up,
                  !.call = [op |-> "process_incoming_data", data |-> <<>>, ret |-> R.ret,
                            events |-> R.events]]
    /\ UNCHANGED <<transport_vars, cobs, timing, api>>

NextLink ==
    \/ LinkSend(1)
    \/ Transfer(1)
    \/ ProcessIncoming(2)

SpecLink == Init /\ [][NextLink]_vars

(***************************************************************************)
(* One Link Layer and the Physical Layer under it                          *)
(***************************************************************************)
\* process_outgoing_data on p: the Physical Layer's send is offered the whole egress ring
\* and takes n of its bytes, none or all of them included; link_log.wire is all it took
ProcessOutgoing(p) ==
    /\ ~link_log.faulted
    /\ \E n \in {0, 1, PartChunk, Len(link[p].outgoing_buffer_) - 1,
                  Len(link[p].outgoing_buffer_)} :
          LET offered == IF link[p].state_ = "READY" THEN link[p].outgoing_buffer_ ELSE <<>>
              R == LinkLayer_process_outgoing_data(link[p], n)
          IN  /\ n >= 0
              /\ n <= Len(offered)
              /\ n = 1 => link_log.byte_steps < MaxByteSteps
              /\ link' = [link EXCEPT ![p] = R.l]
              /\ link_log' = [link_log EXCEPT
                     !.wire = @ \o SubSeq(offered, 1, n),
                     !.byte_steps = IF n = 1 THEN @ + 1 ELSE @,
                     !.call = [op |-> "process_outgoing_data", data |-> offered,
                               ret |-> R.ret, events |-> R.events]]
    /\ UNCHANGED <<transport_vars, cobs, timing, api>>

NextWire ==
    \/ LinkSend(1)
    \/ ProcessOutgoing(1)

SpecWire == Init /\ [][NextWire]_vars

(***************************************************************************)
(* One Link Layer and the bytes of a noisy line                            *)
(***************************************************************************)
MaxPieces == 3      \* queue_link_data calls in a run
MaxNoiseLen == 2    \* every noise piece over NoiseBytes up to this length is tried

NoiseBytes == {0, 1, 2}

\* Payloads of the frames on the noisy line
NoisePayloads == {<<>>, <<9>>, <<0, 7, 0>>}

\* TYPE, LENGTH, payload and the CRC16 of the three, encoded, with the delimiter
Encoded(type, length, data) ==
    LET crc == CRC16_calculate(<<type, length>> \o data)
    IN  COBS_encode(<<type, length>> \o data \o <<crc % 256, crc \div 256>>,
                    COBS_MAX_ENCODED_SIZE).output \o <<COBS_DELIMITER>>

\* The same with the high byte of the CRC changed on the line
BadCrc(type, length, data) ==
    LET crc == CRC16_calculate(<<type, length>> \o data)
    IN  COBS_encode(<<type, length>> \o data \o <<crc % 256, ((crc \div 256) + 1) % 256>>,
                    COBS_MAX_ENCODED_SIZE).output \o <<COBS_DELIMITER>>

NoisePieces ==
    UNION {[1..n -> NoiseBytes] : n \in 1..MaxNoiseLen}
    \cup {<<255>>, <<3, 7, 7, 0>>, <<5>>,
          Filled(LINK_MAX_FRAME_SIZE + 1) \o <<COBS_DELIMITER>>}

FramePieces ==
    {[kind |-> "frame", payload |-> d, data |-> Encoded(LINK_FRAME_TYPE_DATA, Len(d), d)] :
        d \in NoisePayloads}

\* Frames that fail one check each: the CRC, the type, the length
DamagedPieces ==
    UNION {{BadCrc(LINK_FRAME_TYPE_DATA, Len(d), d),
            Encoded(LINK_FRAME_TYPE_DATA + 1, Len(d), d),
            Encoded(LINK_FRAME_TYPE_DATA, Len(d) + 1, d),
            Encoded(LINK_FRAME_TYPE_DATA, LINK_MAX_PAYLOAD_SIZE + 1, d)} :
           d \in NoisePayloads}

IngressPieces ==
    FramePieces
    \cup {[kind |-> "noise", payload |-> <<>>, data |-> n] : n \in NoisePieces}
    \cup {[kind |-> "damaged", payload |-> <<>>, data |-> n] : n \in DamagedPieces}

\* queue_link_data on p with the next bytes of the line
QueuePiece(p) ==
    /\ Len(link_log.pieces) < MaxPieces
    /\ \E piece \in IngressPieces :
          LET Q == LinkLayer_on_receive(link[p], piece.data)
          IN  /\ link' = [link EXCEPT ![p] = Q.l]
              /\ link_log' = [link_log EXCEPT
                     !.pieces = Append(@, [kind |-> piece.kind, payload |-> piece.payload]),
                     !.call = [op |-> "queue_link_data", data |-> piece.data,
                               ret |-> Q.ret, events |-> Q.events]]
    /\ UNCHANGED <<transport_vars, cobs, timing, api>>

NextNoise ==
    \/ QueuePiece(2)
    \/ ProcessIncoming(2)

SpecNoise == Init /\ [][NextNoise]_vars

(***************************************************************************)
(* COBS::encode and COBS::decode on their own                              *)
(***************************************************************************)
MaxCobsLen == 4     \* every input over CobsBytes up to this length is tried

ZeroEvery == 16     \* a long input with a zero at every place that is a multiple of this

CobsBytes == {0, 1, 255}

\* n bytes, zero at the places in zeros
Zeroed(n, zeros) == [i \in 1..n |-> IF i \in zeros THEN 0 ELSE Filled(n)[i]]

\* Inputs of encode: all short ones, and those around a full block of COBS_BLOCK_SIZE bytes
CobsInputs ==
    UNION {[1..n -> CobsBytes] : n \in 0..MaxCobsLen}
    \cup UNION {{Zeroed(n, {}), Zeroed(n, {1}), Zeroed(n, {n}), Zeroed(n, {n - 1}),
                 Zeroed(n, {1, n}), Zeroed(n, {n \div 2}),
                 Zeroed(n, {i \in 1..n : i % ZeroEvery = 0})} :
                n \in (COBS_BLOCK_SIZE - 2)..COBS_BLOCK_SIZE}

InitCobs ==
    /\ InitTransport
    /\ InitLink
    /\ timing = NoTiming
    /\ cobs \in {[NoCobs EXCEPT !.phase = "input", !.input = input] : input \in CobsInputs}

\* COBS::encode into a buffer of COBS_MAX_ENCODED_SIZE bytes
CobsEncode ==
    /\ cobs.phase = "input"
    /\ cobs' = [cobs EXCEPT !.phase = "encoded",
                            !.encoded = COBS_encode(cobs.input, COBS_MAX_ENCODED_SIZE)]
    /\ UNCHANGED <<transport_vars, link_vars, timing, api>>

\* COBS::decode of what encode wrote, followed by the delimiter
CobsDecode ==
    /\ cobs.phase = "encoded"
    /\ cobs.encoded.ret >= 0
    /\ cobs' = [cobs EXCEPT !.phase = "decoded",
                            !.decoded = COBS_decode(cobs.encoded.output \o <<COBS_DELIMITER>>,
                                                    COBS_MAX_ENCODED_SIZE)]
    /\ UNCHANGED <<transport_vars, link_vars, timing, api>>

NextCobs ==
    \/ CobsEncode
    \/ CobsDecode

SpecCobs == InitCobs /\ [][NextCobs]_vars

(***************************************************************************)
(* Two stacks and their users: every entry point of the coordinator is     *)
(* called in any order on either side, the link loses nothing, and an      *)
(* observer notes each call and what it returned                           *)
(***************************************************************************)
MaxStackCalls == 5      \* connect/listen/disconnect calls that change something, in a run
MaxStackSends == 1      \* send() calls in a run
MaxDatagrams == 1       \* send_datagram() calls in a run

\* The lengths of the payloads given to send_datagram: none, the shortest, the shortest
\* that fills a packet header, the longest the Transport Layer takes, and the longest
\* that fits a link frame behind TYPE and LENGTH
DatagramLengths == {0, 1, 2, TRANSPORT_MAX_PAYLOAD_SIZE, LINK_MAX_PAYLOAD_SIZE - 2}

\* The connection id of the SYN_ACK among the packets out, if there is one
Allocated(out, before) ==
    IF OfType(out, TRANSPORT_PACKET_TYPE_SYN_ACK) = {} THEN before
    ELSE HeaderConnectionId(out[Min(OfType(out, TRANSPORT_PACKET_TYPE_SYN_ACK))])

\* What the entry point op of stack p, called with the payload data, leaves behind; in is
\* what stays queued for p
Returned(p, W, op, data, in) ==
    /\ Len(chan[Peer(p)]) + Len(W.out) <= MaxQueue
    /\ transport' = [transport EXCEPT ![p] = W.t]
    /\ stack_state' = [stack_state EXCEPT ![p] = W.s]
    /\ chan' = [chan EXCEPT ![p] = in, ![Peer(p)] = @ \o W.out]
    /\ events' = [events EXCEPT ![p] = W.ev]
    /\ data_rx' = [data_rx EXCEPT ![p] = W.rx]
    /\ datagram_rx' = [datagram_rx EXCEPT ![p] = W.dg]
    /\ api' = [who |-> p, op |-> op, data |-> data, ret |-> W.ret,
               allocated |-> [api.allocated EXCEPT ![p] = Allocated(W.out, @)],
               datagrams |-> api.datagrams + (IF op = "send_datagram" THEN 1 ELSE 0),
               ticked |-> api.ticked]
    /\ UNCHANGED <<unacked, injected, step, link_vars, cobs, timing>>

\* A call that changed nothing is not counted
Controlled(p, W) ==
    /\ calls < MaxStackCalls
    /\ calls' = IF [W EXCEPT !.ret = "SUCCESS"] = World(p) THEN calls ELSE calls + 1

StackConnect(p) ==
    /\ Controlled(p, RobustStack_connect(World(p)))
    /\ Returned(p, RobustStack_connect(World(p)), "connect", <<>>, chan[p])
    /\ UNCHANGED <<data_tx, now>>

StackListen(p) ==
    /\ Controlled(p, RobustStack_listen(World(p)))
    /\ Returned(p, RobustStack_listen(World(p)), "listen", <<>>, chan[p])
    /\ UNCHANGED <<data_tx, now>>

StackDisconnect(p) ==
    /\ Controlled(p, RobustStack_disconnect(World(p)))
    /\ Returned(p, RobustStack_disconnect(World(p)), "disconnect", <<>>, chan[p])
    /\ UNCHANGED <<data_tx, now>>

StackSend(p) ==
    /\ Len(data_tx[1]) + Len(data_tx[2]) < MaxStackSends
    /\ LET W == RobustStack_send(World(p), Payload(p, 1))
       IN  /\ Returned(p, W, "send", Payload(p, 1), chan[p])
           /\ data_tx' = IF IsError(W.ret) THEN data_tx
                         ELSE [data_tx EXCEPT ![p] = Append(@, Payload(p, 1))]
    /\ UNCHANGED <<now, calls>>

StackSendDatagram(p) ==
    /\ api.datagrams < MaxDatagrams
    /\ \E n \in DatagramLengths :
          Returned(p, RobustStack_send_datagram(World(p), Filled(n)), "send_datagram",
                   Filled(n), chan[p])
    /\ UNCHANGED <<data_tx, now, calls>>

StackTick(p) ==
    /\ Returned(p, RobustStack_tick(World(p)), "tick", <<>>, chan[p])
    /\ UNCHANGED <<data_tx, now, calls>>

\* process_incoming_data of stack p: the oldest frame queued for p reaches its Transport
\* Layer's on_receive
StackDeliver(p) ==
    /\ chan[p] # <<>>
    /\ Returned(p, TransportLayer_on_receive(World(p), Head(chan[p])),
                "process_incoming_data", <<>>, Tail(chan[p]))
    /\ UNCHANGED <<data_tx, now, calls>>

NextStack ==
    \/ \E p \in Stacks : StackConnect(p)
    \/ \E p \in Stacks : StackListen(p)
    \/ \E p \in Stacks : StackDisconnect(p)
    \/ \E p \in Stacks : StackSend(p)
    \/ \E p \in Stacks : StackSendDatagram(p)
    \/ \E p \in Stacks : StackTick(p)
    \/ \E p \in Stacks : StackDeliver(p)

SpecStack == Init /\ [][NextStack]_vars

(***************************************************************************)
(* One whole stack: the coordinator, the Transport Layer and the Link      *)
(* Layer under it, the user's calls, the bytes of the line, and reset()    *)
(***************************************************************************)
MaxWholeCalls == 3      \* connect/listen/disconnect/reset calls in a run
MaxWholePieces == 2     \* queue_link_data calls in a run

LinkLayer_deinitialize(R) == LinkLayer_reset(R)

LinkLayer_initialize(R) == [LinkLayer_reset(R) EXCEPT !.events = Append(@, "READY")]

\* TransportLayer::deinitialize, then initialize; the two intervals, which initialize
\* sets back to their defaults, are read by tick() alone
TransportLayer_reinitialize(t) == TransportLayer_reset(TransportLayer_reset(t))

\* RobustStack::reset: l is the Link Layer, W the layers above it
RobustStack_reset(W, l) ==
    [W |-> report_event([W EXCEPT !.t = TransportLayer_reinitialize(@), !.s = "READY"],
                        "READY"),
     R |-> LinkLayer_initialize(LinkLayer_deinitialize(LinkCall(l)))]

RECURSIVE SendAll(_, _)
\* The Link Layer after down_layer->send of each packet of out, in order
SendAll(l, out) ==
    IF out = <<>> THEN l ELSE SendAll(LinkLayer_send(l, Head(out)).l, Tail(out))

RECURSIVE ReceiveAll(_, _)
\* The layers above the Link Layer after up_layer->on_receive of each payload of up
ReceiveAll(W, up) ==
    IF up = <<>> THEN W ELSE ReceiveAll(TransportLayer_on_receive(W, Head(up)), Tail(up))

\* What an entry point of stack 1 leaves behind in all its layers
Whole(W, l, op) ==
    /\ transport' = [transport EXCEPT ![1] = W.t]
    /\ stack_state' = [stack_state EXCEPT ![1] = W.s]
    /\ events' = [events EXCEPT ![1] = W.ev]
    /\ data_rx' = [data_rx EXCEPT ![1] = W.rx]
    /\ datagram_rx' = [datagram_rx EXCEPT ![1] = W.dg]
    /\ link' = [link EXCEPT ![1] = l]
    /\ api' = [api EXCEPT !.who = 1, !.op = op, !.ret = W.ret]
    /\ UNCHANGED <<chan, data_tx, unacked, now, injected, step, link_log, cobs, timing>>

WholeConnect ==
    /\ calls < MaxWholeCalls
    /\ calls' = calls + 1
    /\ LET W == RobustStack_connect(World(1))
       IN  Whole(W, SendAll(link[1], W.out), "connect")

WholeListen ==
    /\ calls < MaxWholeCalls
    /\ calls' = calls + 1
    /\ LET W == RobustStack_listen(World(1))
       IN  Whole(W, SendAll(link[1], W.out), "listen")

WholeDisconnect ==
    /\ calls < MaxWholeCalls
    /\ calls' = calls + 1
    /\ LET W == RobustStack_disconnect(World(1))
       IN  Whole(W, SendAll(link[1], W.out), "disconnect")

WholeReset ==
    /\ calls < MaxWholeCalls
    /\ calls' = calls + 1
    /\ LET after == RobustStack_reset(World(1), link[1])
       IN  Whole(after.W, after.R.l, "reset")

\* queue_link_data with the bytes of a frame that carries a packet of the peer
WholeQueueLinkData ==
    /\ Len(link_log.pieces) < MaxWholePieces
    /\ \E packet \in TimerPackets(transport[1]) :
          LET Q == LinkLayer_on_receive(
                       link[1], Encoded(LINK_FRAME_TYPE_DATA, Len(packet), packet))
          IN  /\ link' = [link EXCEPT ![1] = Q.l]
              /\ link_log' = [link_log EXCEPT
                     !.pieces = Append(@, [kind |-> "frame", payload |-> packet])]
              /\ api' = [api EXCEPT !.who = 1, !.op = "queue_link_data", !.ret = "SUCCESS"]
    /\ UNCHANGED <<transport_vars, cobs, timing>>

\* process_incoming_data: every verified frame's payload goes up to the Transport Layer
\* while the loop runs, and what the Transport Layer answers is queued in the egress
\* ring; the loop sets state_ after each frame, whatever a send in between made of it
WholeProcessIncoming ==
    /\ Len(link[1].incoming_buffer_) > 0
    /\ LET R == LinkLayer_process_incoming_data(link[1])
           W == ReceiveAll(World(1), R.up)
           l == SendAll([R.l EXCEPT !.state_ = "READY"], W.out)
       IN  Whole([W EXCEPT !.ret = "SUCCESS"], [l EXCEPT !.state_ = R.l.state_],
                 "process_incoming_data")
    /\ UNCHANGED calls

\* process_outgoing_data: the Physical Layer takes the whole egress ring
WholeProcessOutgoing ==
    /\ Len(link[1].outgoing_buffer_) > 0
    /\ LET offered == IF link[1].state_ = "READY" THEN link[1].outgoing_buffer_ ELSE <<>>
           R == LinkLayer_process_outgoing_data(link[1], Len(offered))
       IN  /\ link' = [link EXCEPT ![1] = R.l]
           /\ link_log' = [link_log EXCEPT !.wire = @ \o offered]
           /\ api' = [api EXCEPT !.who = 1, !.op = "process_outgoing_data",
                                 !.ret = "SUCCESS"]
    /\ UNCHANGED <<transport_vars, cobs, timing>>

NextWhole ==
    \/ WholeConnect
    \/ WholeListen
    \/ WholeDisconnect
    \/ WholeReset
    \/ WholeQueueLinkData
    \/ WholeProcessIncoming
    \/ WholeProcessOutgoing

SpecWhole == Init /\ [][NextWhole]_vars

(***************************************************************************)
(* Properties of the handshake and of reliable delivery                    *)
(***************************************************************************)
\* c has called connect() and its SYN is on the way to a listening server
Handshaking(c) ==
    /\ transport[c].state_ = "CONNECTING"
    /\ transport[Peer(c)].state_ = "LISTENING"
    /\ chan[Peer(c)] = <<Packet(TRANSPORT_PACKET_TYPE_SYN, TRANSPORT_CONNECTION_ID_INVALID,
                                transport[c].sequence_number_, <<>>)>>
    /\ chan[c] = <<>>

Connected(c) ==
    /\ transport[c].state_ = "CONNECTED"
    /\ transport[Peer(c)].state_ = "CONNECTED"
    /\ transport[c].connection_id_ = transport[Peer(c)].connection_id_
    /\ transport[c].connection_id_ \in 1..255
    /\ transport[c].peer_sequence_number_ = transport[Peer(c)].sequence_number_
    /\ transport[Peer(c)].peer_sequence_number_ = transport[c].sequence_number_
    /\ \A p \in Stacks : events[p]["CONNECTED"] = 1 /\ stack_state[p] = "CONNECTED"

\* C1: once a client's SYN is on its way to a listening server over a lossless link whose
\* frames are all pumped, and with no tick, both Transport Layers end up CONNECTED for
\* good with one connection id in 1..255, each holding the other's sequence number as its
\* peer sequence number, and each coordinator has reported CONNECTED exactly once.
C1_Handshake == \A c \in Stacks : Handshaking(c) ~> [](Connected(c))

C1_Witness ==
    /\ Connected(1)
    /\ transport[1].sequence_number_ # transport[2].sequence_number_
    /\ chan = [p \in Stacks |-> <<>>]

RECURSIVE IsSubsequence(_, _)
\* a can be obtained from b by deleting elements only
IsSubsequence(a, b) ==
    IF a = <<>> THEN TRUE
    ELSE IF b = <<>> THEN FALSE
    ELSE IF Head(a) = Head(b) THEN IsSubsequence(Tail(a), Tail(b))
    ELSE IsSubsequence(a, Tail(b))

\* C2: whatever frames the link loses, the payloads handed to a stack's data callback are,
\* in order, payloads that the peer's send() accepted, with none repeated and none swapped:
\* the received sequence is the sent sequence with elements deleted.
C2_InOrderDelivery == \A p \in Stacks : IsSubsequence(data_rx[Peer(p)], data_tx[p])

C2_Witness ==
    /\ Len(data_tx[1]) = 2
    /\ data_rx[2] = data_tx[1]
    /\ transport[2].state_ = "CONNECTED"

\* Stack 2 has just received the packet step'.data of the given type in state CONNECTED
ReceivedInConnected(type) ==
    /\ step'.who = 2
    /\ transport[2].state_ = "CONNECTED"
    /\ Len(step'.data) >= TRANSPORT_HEADER_SIZE
    /\ HeaderType(step'.data) = type

\* Exactly these packets were handed to the Link Layer during the step
Transmitted(packets) == chan'[1] = chan[1] \o packets

InSequenceData ==
    /\ ReceivedInConnected(TRANSPORT_PACKET_TYPE_DATA)
    /\ HeaderConnectionId(step'.data) = transport[2].connection_id_
    /\ HeaderSequence(step'.data) = transport[2].peer_sequence_number_

\* C3: in CONNECTED, a DATA packet with the current connection id and the expected
\* sequence number is handed upward (an empty payload stops at the coordinator, any
\* other reaches the data callback), is answered with exactly one DATA_ACK carrying the
\* same sequence number, and advances peer_sequence_number_ by one modulo 256.
C3_InSequenceData ==
    [][InSequenceData =>
          LET payload == SubSeq(step'.data, TRANSPORT_HEADER_SIZE + 1, Len(step'.data))
          IN  /\ Transmitted(<<Packet(TRANSPORT_PACKET_TYPE_DATA_ACK,
                                      transport[2].connection_id_,
                                      HeaderSequence(step'.data), <<>>)>>)
              /\ transport'[2].peer_sequence_number_ =
                     (transport[2].peer_sequence_number_ + 1) % 256
              /\ transport'[2].state_ = "CONNECTED"
              /\ data_rx'[2] = IF payload = <<>> THEN data_rx[2]
                               ELSE Append(data_rx[2], payload)
              /\ events'[2]["DATA_RECEIVED"] =
                     events[2]["DATA_RECEIVED"] + (IF payload = <<>> THEN 0 ELSE 1)
    ]_vars

\* DATA 255, 0 and 1 were delivered in that order, across the wrap
C3_Witness ==
    /\ step.who = 2
    /\ step.pre.state_ = "CONNECTED"
    /\ step.data = Packet(TRANSPORT_PACKET_TYPE_DATA, step.pre.connection_id_, 1, <<1>>)
    /\ data_rx[2] = << <<255>>, <<0>>, <<1>> >>
    /\ transport[2].peer_sequence_number_ = 2
    /\ chan[1] = <<Packet(TRANSPORT_PACKET_TYPE_DATA_ACK, step.pre.connection_id_, 1, <<>>)>>

SequenceGap ==
    /\ ReceivedInConnected(TRANSPORT_PACKET_TYPE_DATA)
    /\ HeaderConnectionId(step'.data) = transport[2].connection_id_
    /\ HeaderSequence(step'.data) # transport[2].peer_sequence_number_

\* C4: in CONNECTED, a DATA packet with the current connection id and any other than the
\* expected sequence number is answered with exactly one DATA_NACK carrying the received
\* sequence number; nothing is delivered, no event is reported, and peer_sequence_number_
\* and the state stay as they were.
C4_SequenceGap ==
    [][SequenceGap =>
          /\ Transmitted(<<Packet(TRANSPORT_PACKET_TYPE_DATA_NACK,
                                  transport[2].connection_id_,
                                  HeaderSequence(step'.data), <<>>)>>)
          /\ data_rx' = data_rx
          /\ datagram_rx' = datagram_rx
          /\ events' = events
          /\ transport'[2].peer_sequence_number_ = transport[2].peer_sequence_number_
          /\ transport'[2].state_ = transport[2].state_
    ]_vars

\* After DATA 0 was delivered, DATA 2 came instead of DATA 1
C4_Witness ==
    /\ step.who = 2
    /\ step.pre.state_ = "CONNECTED"
    /\ step.pre.connection_id_ # TRANSPORT_CONNECTION_ID_INVALID
    /\ step.pre.peer_sequence_number_ = 1
    /\ step.data = Packet(TRANSPORT_PACKET_TYPE_DATA, step.pre.connection_id_, 2, <<2>>)
    /\ data_rx[2] = << <<0>> >>
    /\ transport[2].peer_sequence_number_ = 1
    /\ chan[1] = <<Packet(TRANSPORT_PACKET_TYPE_DATA_NACK, step.pre.connection_id_, 2, <<>>)>>

\* The DATA_NACK for the DATA packet that send() sent last, which is still unacknowledged
NackForLastData ==
    /\ ReceivedInConnected(TRANSPORT_PACKET_TYPE_DATA_NACK)
    /\ HeaderConnectionId(step'.data) = transport[2].connection_id_
    /\ HeaderSequence(step'.data) = (transport[2].sequence_number_ + 255) % 256
    /\ unacked[2]
    /\ Len(transport[2].last_tx_buffer_) > TRANSPORT_HEADER_SIZE
    /\ HeaderConnectionId(transport[2].last_tx_buffer_) = transport[2].connection_id_
    /\ HeaderSequence(transport[2].last_tx_buffer_) = HeaderSequence(step'.data)

\* C5: after send() has sent a DATA packet in CONNECTED, a DATA_NACK with the current
\* connection id and the sequence number before sequence_number_ makes the Transport
\* Layer hand the saved last DATA packet, byte for byte, to the Link Layer, without
\* changing sequence_number_.
C5_RetransmitOnNack ==
    [][NackForLastData =>
          /\ Transmitted(<<transport[2].last_tx_buffer_>>)
          /\ transport'[2].sequence_number_ = transport[2].sequence_number_
    ]_vars

\* C6: in every CONNECTED state, awaiting_ack_ is true exactly when the DATA packet that
\* send() sent last has not been answered by a matching DATA_ACK.
C6_StopAndWait ==
    \A p \in Stacks :
        transport[p].state_ = "CONNECTED" => (transport[p].awaiting_ack_ <=> unacked[p])

ConnectionOrientedTypes ==
    {TRANSPORT_PACKET_TYPE_SYN, TRANSPORT_PACKET_TYPE_SYN_ACK, TRANSPORT_PACKET_TYPE_ACK,
     TRANSPORT_PACKET_TYPE_FIN, TRANSPORT_PACKET_TYPE_FIN_ACK, TRANSPORT_PACKET_TYPE_DATA,
     TRANSPORT_PACKET_TYPE_DATA_ACK, TRANSPORT_PACKET_TYPE_DATA_NACK,
     TRANSPORT_PACKET_TYPE_KEEPALIVE, TRANSPORT_PACKET_TYPE_KEEPALIVE_ACK}

MismatchedConnectionId ==
    /\ step'.who = 2
    /\ Len(step'.data) >= TRANSPORT_HEADER_SIZE
    /\ HeaderType(step'.data) \in ConnectionOrientedTypes
    /\ HeaderConnectionId(step'.data) # transport[2].connection_id_
    /\ ~ /\ HeaderType(step'.data) = TRANSPORT_PACKET_TYPE_SYN
         /\ HeaderConnectionId(step'.data) = TRANSPORT_CONNECTION_ID_INVALID
         /\ transport[2].state_ = "LISTENING"

\* Nothing is transmitted, nothing is delivered and no event is reported
NoEffectOutside ==
    /\ stack_state' = stack_state
    /\ chan'[1] = chan[1]
    /\ data_rx' = data_rx
    /\ datagram_rx' = datagram_rx
    /\ events' = events

\* C7: in every state, a packet of a connection-oriented type whose connection id differs
\* from connection_id_ leaves the state, both sequence numbers, the connection id and the
\* keep-alive time unchanged, and nothing is transmitted, delivered or reported; only a
\* SYN with connection id 0 received in LISTENING is exempt.
C7_ConnectionIdCheck ==
    [][MismatchedConnectionId =>
          /\ transport'[2].state_ = transport[2].state_
          /\ transport'[2].sequence_number_ = transport[2].sequence_number_
          /\ transport'[2].peer_sequence_number_ = transport[2].peer_sequence_number_
          /\ transport'[2].connection_id_ = transport[2].connection_id_
          /\ transport'[2].last_keepalive_ack_time_ = transport[2].last_keepalive_ack_time_
          /\ NoEffectOutside
    ]_vars

\* The received-packet rows of the transition table: the types expected in each state
HasTransition(state, type) ==
    \/ state = "LISTENING" /\ type = TRANSPORT_PACKET_TYPE_SYN
    \/ state = "CONNECTING"
         /\ type \in {TRANSPORT_PACKET_TYPE_SYN_ACK, TRANSPORT_PACKET_TYPE_ACK}
    \/ state = "CONNECTED"
         /\ type \in {TRANSPORT_PACKET_TYPE_DATA, TRANSPORT_PACKET_TYPE_DATA_ACK,
                      TRANSPORT_PACKET_TYPE_DATA_NACK, TRANSPORT_PACKET_TYPE_KEEPALIVE,
                      TRANSPORT_PACKET_TYPE_KEEPALIVE_ACK, TRANSPORT_PACKET_TYPE_FIN,
                      TRANSPORT_PACKET_TYPE_SYN}
    \/ state = "DISCONNECTING"
         /\ type \in {TRANSPORT_PACKET_TYPE_FIN_ACK, TRANSPORT_PACKET_TYPE_ACK}
    \/ state # "ERROR" /\ type = TRANSPORT_PACKET_TYPE_DATAGRAM

Unexpected ==
    /\ step'.who = 2
    /\ Len(step'.data) >= TRANSPORT_HEADER_SIZE
    /\ ~HasTransition(transport[2].state_, HeaderType(step'.data))

\* C8: a packet whose type has no transition in the current state leaves every variable
\* of the Transport Layer unchanged; nothing is transmitted, delivered or reported.
C8_IgnoreUnexpected == [][Unexpected => transport'[2] = transport[2] /\ NoEffectOutside]_vars

\* A DATA packet that CONNECTED would have accepted arrives in DISCONNECTING
C8_Witness ==
    /\ step.who = 2
    /\ step.pre.state_ = "DISCONNECTING"
    /\ step.data = Packet(TRANSPORT_PACKET_TYPE_DATA, step.pre.connection_id_,
                          step.pre.peer_sequence_number_,
                          <<step.pre.peer_sequence_number_>>)
    /\ transport[2] = step.pre
    /\ data_rx[2] = <<>>
    /\ chan[1] = <<>>

\* Nothing is left in the sender's egress ring nor in the receiver's ingress ring
Quiescent ==
    /\ link[1].outgoing_buffer_ = <<>>
    /\ link[2].incoming_buffer_ = <<>>

\* The payloads handed to the receiver's upper layer are the first of those that send
\* accepted, in that order, and all of them once every byte went through
RoundTrip ==
    /\ Len(link_log.delivered) <= Len(link_log.sent)
    /\ link_log.delivered = SubSeq(link_log.sent, 1, Len(link_log.delivered))
    /\ Quiescent => link_log.delivered = link_log.sent

\* C9 as stated: over a lossless channel, however the Physical Layer takes the bytes and
\* however they are split across queue_link_data and process_incoming_data calls, every
\* payload that send accepted reaches the peer's upper layer byte for byte, once, in order.
C9_RoundTrip_AsStated == RoundTrip

\* C9: the same, as long as no queue_link_data call found the ingress ring too full for
\* the bytes it was given (the ring is discarded then).
C9_RoundTrip == ~link_log.overflowed => RoundTrip

\* Three payloads, with zero bytes and of the greatest accepted length, went through, six
\* of the bytes on their own
C9_Witness ==
    /\ Quiescent
    /\ ~link_log.overflowed
    /\ link_log.byte_steps >= 6
    /\ link_log.sent = << <<>>, <<0, 7, 0>>, Filled(LINK_MAX_PAYLOAD_SIZE - 1) >>
    /\ link_log.delivered = link_log.sent

\* The step is a call of send with a payload of at most LINK_MAX_PAYLOAD_SIZE bytes
SendCalled ==
    /\ link_log'.call.op = "send"
    /\ Len(link_log'.call.data) <= LINK_MAX_PAYLOAD_SIZE

\* The encoded frame of the payload and its delimiter
Queued(data) == COBS_encode(Frame(data), COBS_MAX_ENCODED_SIZE).output \o <<COBS_DELIMITER>>

HasRoom(data) ==
    Len(link[1].outgoing_buffer_) + Len(Queued(data)) <= LINK_OUTGOING_BUFFER_SIZE

\* C10: send with a payload of 0..250 bytes returns LINK_SUCCESS, appends the encoded
\* frame and a zero byte to the egress ring and reports OUTGOING_DATA_AVAILABLE whenever
\* the ring has room for them, and fails with LINK_ERROR_BUFFER_FULL only when it has not.
C10_SendAcceptance ==
    [][SendCalled =>
          IF HasRoom(link_log'.call.data)
          THEN /\ link_log'.call.ret = "LINK_SUCCESS"
               /\ link'[1].outgoing_buffer_ =
                      link[1].outgoing_buffer_ \o Queued(link_log'.call.data)
               /\ link_log'.call.events = <<"OUTGOING_DATA_AVAILABLE">>
          ELSE /\ link_log'.call.ret = "LINK_ERROR_BUFFER_FULL"
               /\ link'[1].outgoing_buffer_ = link[1].outgoing_buffer_
    ]_vars
(***************************************************************************)
(* Properties of the framing                                               *)
(***************************************************************************)
\* C12: for every byte sequence S of 0 to 254 bytes, encode(S) holds no 0x00, and
\* decode of encode(S) followed by 0x00 returns S and reports |encode(S)| + 1 bytes consumed
C12_CobsRoundTrip ==
    /\ cobs.phase \in {"encoded", "decoded"} =>
           /\ cobs.encoded.ret = Len(cobs.encoded.output)
           /\ \A i \in 1..Len(cobs.encoded.output) : cobs.encoded.output[i] # 0
    /\ cobs.phase = "decoded" =>
           /\ cobs.decoded.ret = Len(cobs.input)
           /\ cobs.decoded.output = cobs.input
           /\ cobs.decoded.consumed_length = Len(cobs.encoded.output) + 1

\* A full block of 254 non-zero bytes has made the round trip
C12_Witness ==
    /\ cobs.phase = "decoded"
    /\ cobs.input = Filled(COBS_BLOCK_SIZE)
    /\ cobs.encoded.ret = COBS_BLOCK_SIZE + 2
    /\ cobs.decoded.output = cobs.input

RECURSIVE Frames(_)
\* The encoded frames of the payloads, each with its delimiter, one after the other
Frames(payloads) ==
    IF payloads = <<>> THEN <<>> ELSE Queued(Head(payloads)) \o Frames(Tail(payloads))

\* The only zero byte of the frame is its last byte
DelimitedOnce(frame) ==
    /\ Len(frame) >= 1
    /\ \A i \in 1..Len(frame) : frame[i] = 0 <=> i = Len(frame)

\* C13: whatever counts the physical send accepts, from none to all of the bytes offered,
\* the bytes it has taken so far are a prefix of the encoded frames of the accepted sends in
\* send order, the egress ring holds exactly the rest, and every such frame has one 0x00,
\* at its end
C13_WireInvariant ==
    /\ link_log.wire \o link[1].outgoing_buffer_ = Frames(link_log.sent)
    /\ \A i \in 1..Len(link_log.sent) : DelimitedOnce(Queued(link_log.sent[i]))

\* Three frames were queued; the physical send has just taken none of the bytes offered,
\* after taking the first frame and a part of the second in pieces
C13_Witness ==
    /\ Len(link_log.sent) = 3
    /\ link_log.call.op = "process_outgoing_data"
    /\ link_log.call.ret = 0
    /\ link_log.call.data # <<>>
    /\ Len(link_log.wire) > Len(Queued(link_log.sent[1]))
    /\ Len(link_log.wire) < Len(Queued(link_log.sent[1])) + Len(Queued(link_log.sent[2]))
    /\ link_log.byte_steps > 0

\* The bytes queued so far are noise and then, last, one valid frame, none of it taken
\* from the ring yet, and process_incoming_data is called
NoiseThenFrame ==
    /\ link_log'.call.op = "process_incoming_data"
    /\ Len(link_log.pieces) >= 2
    /\ link_log.pieces[Len(link_log.pieces)].kind = "frame"
    /\ \A i \in 1..(Len(link_log.pieces) - 1) : link_log.pieces[i].kind = "noise"
    /\ link_log.call.op = "queue_link_data"

FramesReceived(reported) ==
    Cardinality({i \in 1..Len(reported) : reported[i] = "FRAME_RECEIVED"})

\* C11: when noise that holds no valid frame is followed at once by one valid frame and its
\* delimiter, process_incoming_data hands that frame's payload to the upper layer once,
\* reports FRAME_RECEIVED once, and nothing else was or is delivered
C11_Resynchronization ==
    [][NoiseThenFrame =>
          /\ link_log'.delivered = <<link_log.pieces[Len(link_log.pieces)].payload>>
          /\ FramesReceived(link_log'.call.events) = 1]_vars

\* The bytes at the head of the ring from place k on decode to a frame of type DATA that
\* carries payload in full and the CRC16 of its first three fields, low byte first
IntactFrameAt(ring, k, payload) ==
    LET decoded == COBS_decode(SubSeq(ring, k, Len(ring)), LINK_MAX_FRAME_SIZE)
        crc == CRC16_calculate(<<LINK_FRAME_TYPE_DATA, Len(payload)>> \o payload)
    IN  /\ Len(payload) <= LINK_MAX_PAYLOAD_SIZE
        /\ decoded.ret = Len(payload) + 4
        /\ decoded.output
              = <<LINK_FRAME_TYPE_DATA, Len(payload)>> \o payload \o <<crc % 256, crc \div 256>>

\* C14: whatever bytes are in the ingress ring, every payload that process_incoming_data
\* hands to the upper layer comes from a decoded frame with TYPE 0x01, LENGTH at most 250,
\* decoded length LENGTH + 4 and a stored CRC, low byte first, equal to the CRC of
\* TYPE, LENGTH and payload
C14_IntegrityGate ==
    [][link_log'.call.op = "process_incoming_data" =>
          /\ Len(link_log'.delivered) >= Len(link_log.delivered)
          /\ \A i \in (Len(link_log.delivered) + 1)..Len(link_log'.delivered) :
                \E k \in 1..Len(link[2].incoming_buffer_) :
                   IntactFrameAt(link[2].incoming_buffer_, k, link_log'.delivered[i])]_vars

\* One call met a frame with a wrong CRC and a valid one, and handed up only the latter
C14_Witness ==
    /\ link_log.call.op = "process_incoming_data"
    /\ \E i \in 1..Len(link_log.call.events) : link_log.call.events[i] = "CRC_ERROR"
    /\ FramesReceived(link_log.call.events) = 1
    /\ link_log.delivered = <<<<0, 7, 0>>>>
    /\ \E i \in 1..Len(link_log.pieces) : link_log.pieces[i].kind = "damaged"

(***************************************************************************)
(* Properties of the timers                                                *)
(***************************************************************************)
\* tick() is called on a connection whose last matching KEEPALIVE_ACK, or else its
\* establishment, is timing.ack_at
TickConnected ==
    /\ timing'.op = "tick"
    /\ transport[1].state_ = "CONNECTED"
    /\ timing.ack_at >= 0

TimedOut ==
    /\ transport'[1].state_ = "DISCONNECTING"
    /\ events'[1]["TIMEOUT"] = events[1]["TIMEOUT"] + 1

\* C15 as the specification states it: a tick() in CONNECTED at which 3 * keepalive_interval
\* milliseconds have elapsed since the last KEEPALIVE_ACK, or since the connection was
\* established, moves the Transport Layer to DISCONNECTING and reports TIMEOUT
C15_KeepaliveTimeout_AsStated ==
    [][TickConnected /\ now - timing.ack_at >= 3 * KeepaliveMs => TimedOut]_vars

\* C15: the same for a tick() at which more than 3 * keepalive_interval milliseconds
\* have elapsed
C15_KeepaliveTimeout ==
    [][TickConnected /\ now - timing.ack_at > 3 * KeepaliveMs => TimedOut]_vars

\* A tick() has just timed the connection out, one millisecond past three intervals
C15_Witness ==
    /\ timing.op = "tick"
    /\ transport[1].state_ = "DISCONNECTING"
    /\ timing.entered_at = now
    /\ now - timing.ack_at = (3 * KeepaliveMs) + 1
    /\ events[1]["TIMEOUT"] = 1

\* C16: while a KEEPALIVE_ACK with the connection's identifier arrives at least every
\* keepalive_interval milliseconds, so that no tick() finds more than one interval elapsed
\* since the last of them or since the establishment, no tick() reports TIMEOUT or leaves
\* CONNECTED, also when the 32-bit clock wraps in between
C16_HealthyLink ==
    [][TickConnected /\ now - timing.ack_at <= KeepaliveMs =>
          /\ transport'[1].state_ = "CONNECTED"
          /\ events'[1]["TIMEOUT"] = events[1]["TIMEOUT"]]_vars

\* A tick() after the clock has wrapped, one interval after a KEEPALIVE_ACK that arrived
\* before it wrapped, has left the connection as it was
C16_Witness ==
    /\ timing.op = "tick"
    /\ transport[1].state_ = "CONNECTED"
    /\ timing.epoch # U32(0)
    /\ now >= WrapIn
    /\ timing.ack_at < WrapIn
    /\ now - timing.ack_at = KeepaliveMs
    /\ injected >= 2
    /\ transport[1].last_keepalive_ack_time_ = U32Add(timing.epoch, timing.ack_at)
    /\ events[1]["TIMEOUT"] = 0

\* C17: while CONNECTED, a KEEPALIVE is transmitted no sooner than keepalive_interval
\* milliseconds after the KEEPALIVE before it on the same connection, however often tick()
\* is called
C17_ProbeSpacing ==
    [][/\ transport[1].state_ = "CONNECTED"
       /\ OfType(timing'.out, TRANSPORT_PACKET_TYPE_KEEPALIVE) # {}
       /\ timing.probe_at >= 0
       => now - timing.probe_at >= KeepaliveMs]_vars

\* tick() is called while the SYN of connect() is unanswered
TickConnecting ==
    /\ timing'.op = "tick"
    /\ transport[1].state_ = "CONNECTING"
    /\ timing.connect_at >= 0

SynsSent == OfType(timing'.out, TRANSPORT_PACKET_TYPE_SYN)

\* The tick() found no timeout: it changed and transmitted nothing
NothingDetected ==
    /\ transport'[1] = transport[1]
    /\ timing'.out = <<>>
    /\ events'[1] = events[1]

\* The tick() retransmitted one SYN and counted it
Retried ==
    /\ transport[1].connect_retries_ < TRANSPORT_MAX_RETRIES
    /\ transport'[1].connect_retries_ = transport[1].connect_retries_ + 1
    /\ transport'[1].state_ = "CONNECTING"
    /\ Len(timing'.out) = 1
    /\ SynsSent = {1}
    /\ events'[1] = events[1]

\* The tick() gave up: ERROR, TIMEOUT reported once, nothing transmitted
GaveUp ==
    /\ transport[1].connect_retries_ = TRANSPORT_MAX_RETRIES
    /\ transport'[1].state_ = "ERROR"
    /\ timing'.out = <<>>
    /\ events'[1]["TIMEOUT"] = events[1]["TIMEOUT"] + 1

\* C18: after connect() with no SYN_ACK, a tick() that detects a connection timeout
\* retransmits one SYN and increments the retry count while it is below
\* TRANSPORT_MAX_RETRIES, and moves to ERROR with one TIMEOUT when it has reached it; a
\* connect() has 1 + TRANSPORT_MAX_RETRIES SYNs transmitted in all when ERROR is reached,
\* and none is transmitted after that
C18_SynRetryBudget ==
    [][/\ TickConnecting => (NothingDetected \/ Retried \/ GaveUp)
       /\ (timing'.connect_at >= 0 /\ transport'[1].state_ = "CONNECTING") =>
              /\ transport'[1].connect_retries_ <= TRANSPORT_MAX_RETRIES
              /\ timing'.syns = 1 + transport'[1].connect_retries_
       /\ (timing'.connect_at >= 0 /\ transport'[1].state_ = "ERROR") =>
              /\ timing'.syns = 1 + TRANSPORT_MAX_RETRIES
              /\ timing'.timeouts = 1
       /\ transport[1].state_ = "ERROR" => SynsSent = {}]_vars

\* The fourth timeout after connect() has just ended the attempt
C18_Witness ==
    /\ timing.op = "tick"
    /\ timing.connect_at >= 0
    /\ transport[1].state_ = "ERROR"
    /\ transport[1].connect_retries_ = TRANSPORT_MAX_RETRIES
    /\ timing.syns = 1 + TRANSPORT_MAX_RETRIES
    /\ events[1]["TIMEOUT"] = 1
    /\ injected = 0

\* tick() acted on a connection timeout: it retransmitted the SYN, gave the connection
\* attempt up, or ended the wait for the answer to a FIN
TimeoutActed ==
    /\ timing'.op = "tick"
    /\ \/ transport[1].state_ = "CONNECTING" /\ SynsSent # {}
       \/ transport[1].state_ = "CONNECTING" /\ transport'[1].state_ = "ERROR"
       \/ transport[1].state_ = "DISCONNECTING" /\ transport'[1].state_ = "DISCONNECTED"

\* C19: tick() retransmits the SYN, moves from CONNECTING to ERROR or from DISCONNECTING to
\* DISCONNECTED only when more than connection_timeout milliseconds have elapsed since the
\* SYN, SYN_ACK or FIN waited on was last transmitted; a client does not reach ERROR
\* sooner than connection_timeout after connect(), whatever the clock shows
C19_TimeoutReference ==
    [][/\ TimeoutActed => (timing.waited_at >= 0 /\ now - timing.waited_at > TimeoutMs)
       /\ (timing'.connect_at >= 0 /\ transport'[1].state_ = "ERROR") =>
              now' - timing'.connect_at > TimeoutMs]_vars

\* tick() is called in DISCONNECTING when more than connection_timeout milliseconds have
\* passed since the state was entered, no packet has arrived since, and the clock shows
\* more than connection_timeout (it did not start or wrap a moment ago)
TickDisconnecting ==
    /\ timing'.op = "tick"
    /\ transport[1].state_ = "DISCONNECTING"
    /\ timing.quiet
    /\ now - timing.entered_at > TimeoutMs
    /\ U32Greater(Clock(1), TimeoutMs)

\* C20: however DISCONNECTING was entered (disconnect(), a received FIN, the keep-alive
\* timeout), if no further packet arrives the calls of tick() end it as time advances: a
\* tick() past the connection timeout moves the Transport Layer to DISCONNECTED and
\* reports DISCONNECTED.  tick() reads nothing but the clock and the members it leaves
\* alone, so a state that such a tick() does not end is ended by no later one
C20_DisconnectingEnds ==
    [][TickDisconnecting =>
          /\ transport'[1].state_ = "DISCONNECTED"
          /\ events'[1]["DISCONNECTED"] = events[1]["DISCONNECTED"] + 1]_vars

(***************************************************************************)
(* C21: the connection id after a teardown                                 *)
(***************************************************************************)
\* The Transport Layer of stack 2 leaves DISCONNECTING for DISCONNECTED in this step
TeardownCompleted ==
    /\ transport[2].state_ = "DISCONNECTING"
    /\ transport'[2].state_ = "DISCONNECTED"

\* C21: whenever the Transport Layer moves from DISCONNECTING to DISCONNECTED, by a
\* FIN_ACK or an ACK with the connection's id or by the connection timeout, connection_id_
\* is TRANSPORT_CONNECTION_ID_INVALID afterwards
C21_ConnectionIdCleared ==
    [][TeardownCompleted =>
          transport'[2].connection_id_ = TRANSPORT_CONNECTION_ID_INVALID]_vars

(***************************************************************************)
(* C22: the connection ids a listener allocates                            *)
(***************************************************************************)
\* The packets that the call of this step made stack p transmit
SentBy(p) ==
    IF api'.who = p
    THEN SubSeq(chan'[Peer(p)], Len(chan[Peer(p)]) + 1, Len(chan'[Peer(p)]))
    ELSE <<>>

\* The cyclic successor of a connection id: 255 is followed by 1
NextConnectionId(id) == IF id = 255 THEN TRANSPORT_CONNECTION_ID_START ELSE id + 1

\* C22: every connection id a listener puts in a SYN_ACK is in 1..255 and is the cyclic
\* successor of the id the same listener put in its previous SYN_ACK, whatever accept,
\* teardown and listen cycles lie between the two; two consecutive connections never
\* get the same id
C22_ConnectionIdAllocation ==
    [][\A p \in Stacks :
          \A i \in OfType(SentBy(p), TRANSPORT_PACKET_TYPE_SYN_ACK) :
             LET id == HeaderConnectionId(SentBy(p)[i])
             IN  /\ id \in 1..255
                 /\ api.allocated[p] # TRANSPORT_CONNECTION_ID_INVALID =>
                        id = NextConnectionId(api.allocated[p])]_vars

(***************************************************************************)
(* C23, C24: datagrams                                                     *)
(***************************************************************************)
\* The packet that carries a datagram's payload: TYPE, LENGTH, PAYLOAD
Datagram(payload) == <<TRANSPORT_PACKET_TYPE_DATAGRAM, Len(payload)>> \o payload

\* The members the claim speaks of: state, sequence numbers, connection id
Connection(p) ==
    <<transport[p].state_, transport[p].sequence_number_,
      transport[p].peer_sequence_number_, transport[p].connection_id_>>

\* Stack p's user calls send_datagram with a payload of 1..248 bytes in a state in which
\* the coordinator takes datagrams
DatagramSent(p) ==
    /\ api'.who = p
    /\ api'.op = "send_datagram"
    /\ Len(api'.data) \in 1..(LINK_MAX_PAYLOAD_SIZE - 2)
    /\ stack_state[p] \in {"READY", "CONNECTED"}

\* The frame that reaches stack p in this step carries such a datagram
DatagramArrived(p) ==
    /\ api'.who = p
    /\ api'.op = "process_incoming_data"
    /\ transport[p].state_ # "ERROR"
    /\ \E n \in DatagramLengths \ {0} : Head(chan[p]) = Datagram(Filled(n))

\* C23: every payload of 1..248 bytes passed to send_datagram goes onto the link as one
\* DATAGRAM packet, and the peer, in any Transport state but ERROR, hands exactly that
\* payload once to its datagram sink when the packet arrives; on both sides the
\* Transport state, the sequence numbers and the connection id stay as they were
C23_DatagramRoundTrip ==
    [][\A p \in Stacks :
          /\ DatagramSent(p) =>
                /\ chan'[Peer(p)] = Append(chan[Peer(p)], Datagram(api'.data))
                /\ Connection(p)' = Connection(p)
          /\ DatagramArrived(p) =>
                /\ datagram_rx'[p] =
                       Append(datagram_rx[p], SubSeq(Head(chan[p]), 3, Len(Head(chan[p]))))
                /\ Connection(p)' = Connection(p)]_vars

\* Stack p's user calls send_datagram with a payload the Transport Layer takes, while
\* neither the coordinator nor the Transport Layer is in ERROR
ValidDatagramCall(p) ==
    /\ api'.who = p
    /\ api'.op = "send_datagram"
    /\ Len(api'.data) \in 1..TRANSPORT_MAX_PAYLOAD_SIZE
    /\ transport[p].state_ # "ERROR"
    /\ stack_state[p] # "ERROR"

\* C24: send_datagram with a valid payload is accepted in every state but ERROR: before
\* connect, while listening, while a connection is being set up, while connected and
\* while disconnecting
C24_DatagramAvailability ==
    [][\A p \in Stacks : ValidDatagramCall(p) => api'.ret = "SUCCESS"]_vars

(***************************************************************************)
(* C25: the coordinator's state and the Transport Layer's                  *)
(***************************************************************************)
\* The coordinator state the mapping gives for a Transport state; it names none for
\* DISCONNECTING
Shadow(state) ==
    CASE state \in {"DISCONNECTED", "LISTENING"} -> {"READY"}
      [] state = "CONNECTING" -> {"CONNECTING"}
      [] state = "CONNECTED" -> {"CONNECTED"}
      [] state = "ERROR" -> {"ERROR"}
      [] OTHER -> RobustStackStates

\* C25: after every entry point of the stack has returned, the coordinator is READY if
\* the Transport Layer is DISCONNECTED or LISTENING, CONNECTING if it is CONNECTING,
\* CONNECTED if it is CONNECTED and ERROR if it is ERROR
C25_StateMapping == \A p \in Stacks : stack_state[p] \in Shadow(transport[p].state_)

(***************************************************************************)
(* C26, C27: calls that are repeated or made in the wrong state            *)
(***************************************************************************)
\* Stack p's user calls connect() again right after a connect() that succeeded, while
\* the Transport Layer still waits for the SYN_ACK
SecondConnect(p) ==
    /\ api.who = p /\ api.op = "connect" /\ api.ret = "SUCCESS"
    /\ transport[p].state_ = "CONNECTING"
    /\ api'.who = p /\ api'.op = "connect"

\* Stack p's user calls connect() on an established connection
ConnectWhileConnected(p) ==
    /\ stack_state[p] = "CONNECTED"
    /\ transport[p].state_ = "CONNECTED"
    /\ api'.who = p /\ api'.op = "connect"

\* C26: a second connect() before the first attempt has completed transmits the SYN
\* again and leaves the state CONNECTING, the retry counter and the sequence number as
\* they were; connect() while CONNECTED returns success, transmits nothing and changes
\* no state
C26_ConnectIdempotence ==
    [][\A p \in Stacks :
          /\ SecondConnect(p) =>
                /\ SentBy(p) = <<Packet(TRANSPORT_PACKET_TYPE_SYN,
                                        TRANSPORT_CONNECTION_ID_INVALID,
                                        transport[p].sequence_number_, <<>>)>>
                /\ transport'[p].state_ = "CONNECTING"
                /\ transport'[p].connect_retries_ = transport[p].connect_retries_
                /\ transport'[p].sequence_number_ = transport[p].sequence_number_
          /\ ConnectWhileConnected(p) =>
                /\ api'.ret = "SUCCESS"
                /\ SentBy(p) = <<>>
                /\ transport'[p] = transport[p]
                /\ stack_state'[p] = stack_state[p]
                /\ events'[p] = events[p]]_vars

\* The values returned for an operation that is invalid in the current state
StateErrors ==
    {"ROBUST_ERROR_INVALID_STATE", "ROBUST_ERROR_NOT_CONNECTED", "LAYER_ERROR_INVALID_STATE",
     "TRANSPORT_ERROR_INVALID_STATE", "TRANSPORT_ERROR_NOT_CONNECTED"}

\* A call of connect, listen, disconnect, send or send_datagram on stack p returns a
\* state error
StateErrorReturned(p) ==
    /\ api'.who = p
    /\ api'.op \in {"connect", "listen", "disconnect", "send", "send_datagram"}
    /\ api'.ret \in StateErrors

\* C27: whenever connect, listen, disconnect, send or send_datagram returns an error
\* because it is invalid in the current state, the coordinator state and the Transport
\* state are the same after the call as before and no user event is emitted, in every
\* reachable combination of the two states
C27_StateErrorsChangeNothing ==
    [][\A p \in Stacks :
          StateErrorReturned(p) =>
             /\ stack_state'[p] = stack_state[p]
             /\ transport'[p].state_ = transport[p].state_
             /\ events'[p] = events[p]]_vars

(***************************************************************************)
(* C28: reset()                                                            *)
(***************************************************************************)
\* C28: called in any reachable state, reset() leaves the coordinator in READY, the
\* Transport Layer in DISCONNECTED with the awaiting and waiting flags and the retry
\* counter cleared, and the Link Layer in READY with both rings empty, so that no byte
\* queued or received before the reset is transmitted or parsed after it
C28_Reset ==
    [][api'.op = "reset" =>
          /\ stack_state'[1] = "READY"
          /\ transport'[1].state_ = "DISCONNECTED"
          /\ ~transport'[1].awaiting_ack_
          /\ ~transport'[1].waiting_response_
          /\ transport'[1].connect_retries_ = 0
          /\ link'[1].state_ = "READY"
          /\ link'[1].outgoing_buffer_ = <<>>
          /\ link'[1].incoming_buffer_ = <<>>]_vars

(***************************************************************************)
(* C29, C30: the Link Layer's ERROR state and its ingress ring             *)
(***************************************************************************)
\* C29: once the Link Layer is in ERROR after a CRC mismatch or an unknown frame type,
\* it stays in ERROR until the next successful send; receiving further frames, valid or
\* not, does not clear it.  The receiver of the noisy line never sends
C29_LinkErrorLifetime ==
    [][(link[2].state_ = "ERROR" /\ link_log'.call.op # "send") =>
          link'[2].state_ = "ERROR"]_vars

\* The bytes handed to queue_link_data in this step do not fit in what is left of the
\* receiver's ingress ring
IngressOverflows ==
    /\ link_log'.call.op = "queue_link_data"
    /\ Len(link[2].incoming_buffer_) + Len(link_log'.call.data) > LINK_INCOMING_BUFFER_SIZE

\* C30: when on_receive is given bytes that do not fit in the remaining ingress ring
\* space, the whole ring is emptied (the bytes buffered before are discarded and the new
\* bytes are not stored), BUFFER_FULL is returned to the caller, and the condition is
\* surfaced as an event to the coordinator
C30_IngressOverflow ==
    [][IngressOverflows =>
          /\ link'[2].incoming_buffer_ = <<>>
          /\ link_log'.call.ret = "LINK_ERROR_BUFFER_FULL"
          /\ link_log'.call.events # <<>>]_vars

(***************************************************************************)
(* C31: the acknowledgement of the DATA packet sent with sequence 255      *)
(***************************************************************************)
\* A packet of this type answers, with sequence 255, the DATA packet that send() sent
\* last with sequence 255: sequence_number_ has wrapped to 0
AnswerAcrossWrap(type) ==
    /\ ReceivedInConnected(type)
    /\ HeaderConnectionId(step'.data) = transport[2].connection_id_
    /\ HeaderSequence(step'.data) = 255
    /\ transport[2].sequence_number_ = 0
    /\ unacked[2]
    /\ Len(transport[2].last_tx_buffer_) > TRANSPORT_HEADER_SIZE
    /\ HeaderConnectionId(transport[2].last_tx_buffer_) = transport[2].connection_id_
    /\ HeaderSequence(transport[2].last_tx_buffer_) = 255

\* C31: the sequence of a received DATA_ACK or DATA_NACK is compared with
\* sequence_number_ - 1 modulo 256: when sequence_number_ has wrapped to 0 after the DATA
\* with sequence 255 was sent, a DATA_ACK with sequence 255 clears awaiting_ack_ and a
\* DATA_NACK with sequence 255 makes the saved DATA packet be transmitted again
C31_SequenceWrap ==
    [][/\ AnswerAcrossWrap(TRANSPORT_PACKET_TYPE_DATA_ACK) => ~transport'[2].awaiting_ack_
       /\ AnswerAcrossWrap(TRANSPORT_PACKET_TYPE_DATA_NACK) =>
             Transmitted(<<transport[2].last_tx_buffer_>>)]_vars

(***************************************************************************)
(* One Link Layer and a Physical Layer whose send may fail                 *)
(***************************************************************************)
PHYSICAL_ERROR_GENERAL == -32
PHYSICAL_ERROR_HW_FAIL == -36
PHYSICAL_LAYER_EVENT_ERROR == -1

\* What the Physical Layer's send returns when it fails
PhysicalErrors == {PHYSICAL_ERROR_GENERAL, PHYSICAL_ERROR_HW_FAIL}

\* The events that the coordinator reports to the user for an event of the Physical
\* Layer: it writes to the log
on_physical_layer_event(event_code) == <<>>

\* process_outgoing_data on p when the Physical Layer's send is called and fails; the
\* Physical Layer may report its own error event to the coordinator or not
ProcessOutgoingFailed(p) ==
    /\ ~link_log.faulted
    /\ Len(link[p].outgoing_buffer_) > 0
    /\ link[p].state_ = "READY"
    /\ \E error \in PhysicalErrors, reported \in BOOLEAN :
          LET R == LinkLayer_process_outgoing_data(link[p], error)
              user == IF reported THEN on_physical_layer_event(PHYSICAL_LAYER_EVENT_ERROR)
                      ELSE <<>>
          IN  /\ link' = [link EXCEPT ![p] = R.l]
              /\ link_log' = [link_log EXCEPT
                     !.call = [op |-> "process_outgoing_data",
                               data |-> link[p].outgoing_buffer_,
                               ret |-> R.ret, events |-> R.events \o user]]
    /\ UNCHANGED <<transport_vars, cobs, timing, api>>

NextPhy ==
    \/ LinkSend(1)
    \/ ProcessOutgoing(1)
    \/ ProcessOutgoingFailed(1)

SpecPhy == Init /\ [][NextPhy]_vars

\* The Physical Layer's send returned a negative value to process_outgoing_data
PhysicalSendFailed ==
    /\ link_log'.call.op = "process_outgoing_data"
    /\ link_log'.call.ret < 0

\* C32: when the Physical Layer's send returns a negative value during
\* process_outgoing_data, the failure is surfaced as an ERROR event, the egress ring is
\* unchanged, so that the same bytes are offered again by the next call, and the Link
\* Layer's state is READY again
C32_PhysicalSendFailure ==
    [][PhysicalSendFailed =>
          /\ \E i \in DOMAIN link_log'.call.events : link_log'.call.events[i] = "ERROR"
          /\ link'[1].outgoing_buffer_ = link[1].outgoing_buffer_
          /\ link'[1].state_ = "READY"]_vars

(***************************************************************************)
(* Two stacks whose embedders run their loops: every queued frame is       *)
(* pumped and tick() is called on both sides before the clock moves on     *)
(***************************************************************************)
MaxCloseTime == 4     \* the milliseconds that the clock counts past its start
MaxCloseCalls == 4    \* connect/listen/disconnect calls in a run

\* tick() of stack p, which its loop calls once in a millisecond; api.ticked tells the
\* clock that p's loop has come round
CloseTick(p) ==
    LET W == RobustStack_tick(World(p))
    IN  /\ p \notin api.ticked
        /\ Len(chan[Peer(p)]) + Len(W.out) <= MaxQueue
        /\ transport' = [transport EXCEPT ![p] = W.t]
        /\ stack_state' = [stack_state EXCEPT ![p] = W.s]
        /\ chan' = [chan EXCEPT ![Peer(p)] = @ \o W.out]
        /\ events' = [events EXCEPT ![p] = W.ev]
        /\ api' = [api EXCEPT !.who = p, !.op = "tick", !.data = <<>>, !.ret = W.ret,
                              !.ticked = @ \cup {p}]
        /\ UNCHANGED <<data_rx, datagram_rx, data_tx, unacked, now, calls, injected, step,
                       link_vars, cobs, timing>>

\* A millisecond passes once both loops have pumped every frame and called tick(); the
\* loops go on after the last millisecond that the clock counts
CloseAdvance ==
    /\ chan = [p \in Stacks |-> <<>>]
    /\ api.ticked = Stacks
    /\ now' = IF now < MaxCloseTime THEN now + 1 ELSE now
    /\ api' = [api EXCEPT !.who = 0, !.op = "none", !.data = <<>>, !.ret = "SUCCESS",
                          !.ticked = {}]
    /\ UNCHANGED <<transport, stack_state, chan, events, data_rx, data_tx, unacked,
                   datagram_rx, calls, injected, step, link_vars, cobs, timing>>

\* Stack 1's user is the client, stack 2's the server
NextClose ==
    \/ calls < MaxCloseCalls /\ StackConnect(1)
    \/ calls < MaxCloseCalls /\ StackListen(2)
    \/ \E p \in Stacks : calls < MaxCloseCalls /\ StackDisconnect(p)
    \/ \E p \in Stacks : StackDeliver(p)
    \/ \E p \in Stacks : CloseTick(p)
    \/ CloseAdvance

SpecClose ==
    /\ Init
    /\ [][NextClose]_vars
    /\ \A p \in Stacks : WF_vars(StackDeliver(p)) /\ WF_vars(CloseTick(p))
    /\ WF_vars(CloseAdvance)

(***************************************************************************)
(* C33: the graceful close of an established connection                    *)
(***************************************************************************)
\* disconnect() of stack p is called in this step on an established connection: both
\* Transport Layers are CONNECTED with the same connection id
DisconnectCalled(p) ==
    /\ api'.who = p /\ api'.op = "disconnect"
    /\ stack_state[p] = "CONNECTED"
    /\ transport[p].state_ = "CONNECTED"
    /\ transport[Peer(p)].state_ = "CONNECTED"
    /\ transport[Peer(p)].connection_id_ = transport[p].connection_id_

\* The FIN of the connection that stack p is part of
Fin(p) ==
    Packet(TRANSPORT_PACKET_TYPE_FIN, transport[p].connection_id_,
           transport[p].sequence_number_, <<>>)

\* Stack p, CONNECTED, takes in this step a FIN that carries its connection id
FinReceived(p) ==
    /\ api'.who = p /\ api'.op = "process_incoming_data"
    /\ chan[p] # <<>>
    /\ transport[p].state_ = "CONNECTED"
    /\ HeaderType(Head(chan[p])) = TRANSPORT_PACKET_TYPE_FIN
    /\ HeaderConnectionId(Head(chan[p])) = transport[p].connection_id_

\* disconnect() has sent stack p's FIN to a peer that is CONNECTED with the same
\* connection id, and the FIN is the last frame queued for the peer
CloseStarted(p) ==
    /\ stack_state[p] = "READY"
    /\ transport[p].state_ = "DISCONNECTING"
    /\ transport[p].waiting_response_
    /\ transport[Peer(p)].state_ = "CONNECTED"
    /\ transport[Peer(p)].connection_id_ = transport[p].connection_id_
    /\ chan[Peer(p)] # <<>>
    /\ chan[Peer(p)][Len(chan[Peer(p)])] = Fin(p)

CrcMismatchAtHead(d, rest) ==
    /\ link_log'.call.op = "process_incoming_data"
    /\ link[2].incoming_buffer_ = BadCrc(LINK_FRAME_TYPE_DATA, Len(d), d) \o rest

\* C34: for a complete frame in the ingress ring whose LENGTH is consistent and whose
\* stored CRC differs from the recomputed one, process_incoming_data reports exactly one
\* CRC_ERROR, hands nothing up for it and removes exactly the frame's bytes, its
\* delimiter included: a valid frame that follows it in the ring is handed up by the same
\* call, and bytes that follow it without a delimiter stay in the ring
C34_CrcMismatch ==
    [][\A d \in NoisePayloads :
          /\ \A e \in NoisePayloads :
                CrcMismatchAtHead(d, Encoded(LINK_FRAME_TYPE_DATA, Len(e), e)) =>
                   /\ link_log'.call.events = <<"CRC_ERROR", "FRAME_RECEIVED">>
                   /\ link_log'.delivered = Append(link_log.delivered, e)
                   /\ link'[2].incoming_buffer_ = <<>>
          /\ \A rest \in {<<>>, <<5>>, <<1, 2>>} :
                CrcMismatchAtHead(d, rest) =>
                   /\ link_log'.call.events = <<"CRC_ERROR">>
                   /\ link_log'.delivered = link_log.delivered
                   /\ link'[2].incoming_buffer_ = rest
                   /\ link'[2].state_ = "ERROR"]_vars

\* One call met a frame with a wrong CRC and, after it, a valid frame with another payload
C34_Witness ==
    /\ link_log.call.op = "process_incoming_data"
    /\ link_log.call.events = <<"CRC_ERROR", "FRAME_RECEIVED">>
    /\ link_log.delivered = <<<<9>>>>
    /\ link_log.pieces = <<[kind |-> "damaged", payload |-> <<>>],
                           [kind |-> "frame", payload |-> <<9>>]>>
    /\ link[2].incoming_buffer_ = <<>>

\* The bytes that one pass of the loop removes from a ring that holds a delimiter: one
\* byte when COBS::decode fails or gives fewer than LINK_MIN_FRAME_SIZE bytes, else
\* consumed_length bytes
RemovedByPass(incoming) ==
    LET decoded == COBS_decode(incoming, LINK_MAX_FRAME_SIZE)
    IN  IF decoded.ret < LINK_MIN_FRAME_SIZE \/ decoded.ret < 0
        THEN 1
        ELSE decoded.consumed_length

HasDelimiter(incoming) == \E i \in 1..Len(incoming) : incoming[i] = COBS_DELIMITER

\* C35: process_incoming_data terminates for every content of the ingress ring: a pass
\* of its loop either returns, the ring holding no delimiter, or removes at least one
\* byte from the ring's head, so every ring that a pass can meet is a suffix of the ring
\* at the call; on return the ring is empty or holds only bytes after which no 0x00
\* delimiter has arrived
C35_Termination ==
    [][link_log'.call.op = "process_incoming_data" =>
          LET ring == link[2].incoming_buffer_
              left == link'[2].incoming_buffer_
          IN  /\ \A k \in 1..Len(ring) :
                    LET met == SubSeq(ring, k, Len(ring))
                    IN  IF HasDelimiter(met)
                        THEN RemovedByPass(met) \in 1..Len(met)
                        ELSE COBS_decode(met, LINK_MAX_FRAME_SIZE).ret = COBS_ERROR_INCOMPLETE
              /\ ~HasDelimiter(left)
              /\ left = SubSeq(ring, Len(ring) - Len(left) + 1, Len(ring))]_vars

\* One call dropped noise and a damaged frame and returned with bytes of a frame whose
\* delimiter has not arrived
C35_Witness ==
    /\ link_log.call.op = "process_incoming_data"
    /\ Len(link_log.pieces) = 3
    /\ link_log.pieces[1].kind = "noise"
    /\ link_log.pieces[2].kind = "damaged"
    /\ link_log.pieces[3].kind = "noise"
    /\ link_log.delivered = <<>>
    /\ link[2].incoming_buffer_ = <<1, 2>>

(***************************************************************************)
(* C36: the overhead of COBS::encode                                       *)
(***************************************************************************)
\* C36: for every input of 1 to 254 bytes, 254 non-zero bytes included, COBS::encode with
\* a large enough output buffer returns a length of at most the input's length plus one
C36_CobsOverhead ==
    (cobs.phase = "encoded" /\ Len(cobs.input) \in 1..COBS_BLOCK_SIZE) =>
       /\ cobs.encoded.ret >= 0
       /\ cobs.encoded.ret <= Len(cobs.input) + 1

(***************************************************************************)
(* C37: who sends SYN                                                      *)
(***************************************************************************)
\* Stack 2 is a server that its peer's packet can knock back: it accepted a SYN while
\* LISTENING and waits in CONNECTING for the client's ACK
ServerConnecting == transport[2].state_ = "CONNECTING"

\* C37: a Transport Layer that entered CONNECTING by accepting a SYN while LISTENING
\* never transmits a SYN itself, whenever tick() is called, so a client that has reached
\* CONNECTED is never knocked back to DISCONNECTED by a packet of the server during the
\* handshake.  Stack 2 only listens, and chan[1] holds what it transmitted
C37_OnlyInitiatorSendsSyn ==
    /\ \A i \in 1..Len(chan[1]) : HeaderType(chan[1][i]) # TRANSPORT_PACKET_TYPE_SYN
    /\ ServerConnecting /\ events[1]["CONNECTED"] > 0 => transport[1].state_ # "DISCONNECTED"

(***************************************************************************)
(* C38: the DISCONNECTED event                                             *)
(***************************************************************************)
\* The user's event callback of stack p receives DISCONNECTED in this step
DisconnectedReported(p) == events'[p]["DISCONNECTED"] > events[p]["DISCONNECTED"]

\* C38: for each connection that is torn down, by disconnect(), by the peer's FIN or by
\* a timeout, the user's event callback receives DISCONNECTED exactly once, and only when
\* the Transport Layer has reached DISCONNECTED: a step reports it at most once, with the
\* Transport Layer in DISCONNECTED after the step, and a stack has never received it more
\* often than it has received CONNECTED
C38_OneDisconnectedEvent ==
    [][\A p \in Stacks :
          /\ DisconnectedReported(p) =>
                /\ events'[p]["DISCONNECTED"] = events[p]["DISCONNECTED"] + 1
                /\ transport'[p].state_ = "DISCONNECTED"
          /\ events'[p]["DISCONNECTED"] <= events'[p]["CONNECTED"]]_vars

(***************************************************************************)
(* Two connected stacks whose users send payloads while both embedders run *)
(* their loops over a link that loses nothing and keeps the order          *)
(***************************************************************************)
MaxReliableSends == 2   \* send() calls in a run, on either side

BothConnected ==
    \A p \in Stacks : transport[p].state_ = "CONNECTED" /\ stack_state[p] = "CONNECTED"

\* The frames between the two stacks; a user calls send() or tick() when its loop has
\* pumped all but one of the frames that the link can hold, so that the answer to a
\* frame that arrives always finds room
InFlight == Len(chan[1]) + Len(chan[2])

\* send() of stack p, called while both peers are CONNECTED
ReliableSend(p) ==
    /\ BothConnected
    /\ InFlight < MaxQueue
    /\ Len(data_tx[1]) + Len(data_tx[2]) < MaxReliableSends
    /\ LET W == RobustStack_send(World(p), Payload(p, 1))
       IN  /\ Returned(p, W, "send", Payload(p, 1), chan[p])
           /\ data_tx' = IF IsError(W.ret) THEN data_tx
                         ELSE [data_tx EXCEPT ![p] = Append(@, Payload(p, 1))]
    /\ UNCHANGED <<now, calls>>

\* tick() of stack p, once in a millisecond
ReliableTick(p) ==
    /\ InFlight < MaxQueue
    /\ CloseTick(p)

\* Stack 1's user is the client, stack 2's the server
NextReliable ==
    \/ calls < MaxCloseCalls /\ InFlight < MaxQueue /\ StackConnect(1)
    \/ calls < MaxCloseCalls /\ StackListen(2)
    \/ \E p \in Stacks : ReliableSend(p)
    \/ \E p \in Stacks : StackDeliver(p)
    \/ \E p \in Stacks : ReliableTick(p)
    \/ CloseAdvance

SpecReliable ==
    /\ Init
    /\ [][NextReliable]_vars
    /\ \A p \in Stacks : WF_vars(StackDeliver(p)) /\ WF_vars(ReliableTick(p))
    /\ WF_vars(CloseAdvance)

(***************************************************************************)
(* C39: reliable delivery over a lossless link                             *)
(***************************************************************************)
\* C39: with both peers CONNECTED, a link that loses nothing and keeps the order, and
\* both loops pumping and calling tick(), every payload for which send() returned success
\* is in the end delivered to the peer's data callback exactly once: from some point on
\* what each data callback has received is what the peer's send() accepted, in its order,
\* and at no time has a callback received a payload twice or one that was not sent.
C39_ReliableDelivery ==
    /\ [](\A p \in Stacks : IsSubsequence(data_rx[Peer(p)], data_tx[p]))
    /\ <>[](\A p \in Stacks : data_rx[Peer(p)] = data_tx[p])

(***************************************************************************)
(* C40: the buffers of the Link Layer                                      *)
(***************************************************************************)
\* C40: in every state that send, on_receive, process_outgoing_data and
\* process_incoming_data can reach, the egress ring holds 0..LINK_OUTGOING_BUFFER_SIZE
\* bytes, the ingress ring 0..LINK_INCOMING_BUFFER_SIZE bytes, the encoded frame that send
\* wrote, its delimiter included, lies within encoded_buffer_ (COBS_MAX_ENCODED_SIZE bytes;
\* no store of send went outside it), and the frame that process_incoming_data decodes
\* from the ingress ring lies within decode_buffer_ (LINK_MAX_FRAME_SIZE bytes).
C40_BoundedBuffers ==
    /\ ~link_log.faulted
    /\ \A p \in Stacks :
          /\ Len(link[p].outgoing_buffer_) \in 0..LINK_OUTGOING_BUFFER_SIZE
          /\ Len(link[p].incoming_buffer_) \in 0..LINK_INCOMING_BUFFER_SIZE
          /\ link[p].encoded_length_ \in 0..COBS_MAX_ENCODED_SIZE
          /\ Len(COBS_decode(link[p].incoming_buffer_, LINK_MAX_FRAME_SIZE).output)
                <= LINK_MAX_FRAME_SIZE

====
